---------------------------- MODULE Spec2Model ----------------------------
(***************************************************************************)
(* Signal-to-order risk pipeline of the BingX futures trading bot:         *)
(* SafetyManager, RiskManager, PositionSizer, TradeExecutionEngine and the *)
(* TradingEngine orchestrator, with the exchange client and the trade      *)
(* database as collaborators.                                              *)
(*                                                                         *)
(* Units.  Money is in whole dollars, time in minutes, percentages in      *)
(* whole percent, base-asset quantities in millionths.                     *)
(*                                                                         *)
(* The specifications share the state: SpecSafety (the SafetyManager's     *)
(* operations in any order), SpecExec (executeTrade calls of two callers), *)
(* SpecOrders (SpecExec with updateOrderStatus), SpecRisk (the             *)
(* RiskManager's operations), SpecDb (the trades table), SpecClient (the   *)
(* request queue of the exchange client), SpecSizer (calculatePositionSize *)
(* on any request), SpecValidator (validateWebhookPayload on any payload), *)
(* Spec (two processSignal calls interleaved at their awaits, the          *)
(* notification channels delivering and the exchange accepting the bracket *)
(* orders), SpecFaults (processSignal calls one after the other with any   *)
(* collaborator failing and positions closing at a loss), SpecHistory      *)
(* (processSignal calls one after the other over a trades table in which   *)
(* trades are stored and closed), SpecWebhook (the webhook route on any    *)
(* payload), SpecPolling (overlapping updateOrderStatus and cancelOrder    *)
(* calls), SpecStatus (SpecHistory with getStatus calls), SpecClose        *)
(* (SpecFaults with CLOSE signals) and SpecStop (SpecFaults with the       *)
(* emergency stop activated at any moment).                                *)
(***************************************************************************)
EXTENDS Integers, Sequences, FiniteSets, TLC

(***************************************************************************)
(* Bounds of the model (not program constants).                            *)
(***************************************************************************)
MaxTicks == 2
MaxUpdates == 2
MaxTrades == 5
MaxExecCalls == 2
MaxSignals == 2
MaxRiskUpdates == 2
MaxRequests == 5
MaxStatusCalls == 2

(***************************************************************************)
(* Program constants.                                                      *)
(***************************************************************************)
\* SafetyThresholds as TradingEngine's constructor builds them
maxDailyLoss == 5
maxDrawdown == 10
maxOpenPositions == 3
maxPositionSize == 1000
maxLeverage == 10
minBalance == 100
maxConsecutiveLosses == 5
maxVolatility == 50
\* CircuitBreakerState.cooldownPeriod, 30 * 60 * 1000 ms, in minutes
cooldownMinutes == 30
maxRetries == 3
positionSizePercent == 2
stopLossPercent == 2
takeProfitPercent == 4
maxRiskPerTrade == 2

\* quantities and position values are counted in millionths
QtyScale == 1000 * 1000

MinutesPerDay == 24 * 60

\* the clock advances by half a cooldown period, or by a day
TickMinutes == cooldownMinutes \div 2

RiskLevels == {"LOW", "MEDIUM", "HIGH", "CRITICAL"}

\* the order LOW < MEDIUM < HIGH < CRITICAL of SafetyStatus.riskLevel
LevelRank(l) == CASE l = "LOW" -> 0 [] l = "MEDIUM" -> 1 [] l = "HIGH" -> 2
                  [] l = "CRITICAL" -> 3

VARIABLES
  \* SafetyManager fields
  emergencyStop, circuitBreaker, consecutiveLosses, dailyLoss, lastResetTime,
  \* the clock read by Date.now()
  now,
  \* number of updateDailyLoss calls made so far (bounds the run)
  nUpdates,
  \* the SafetyStatus returned by the checkSafety call that has just
  \* returned, NoStatus after any other operation
  safetyStatus,
  \* TradeExecutionEngine fields
  activeOrders, orderHistory,
  \* the executeTrade call each caller has in progress
  exec,
  \* source of fresh client order ids, and the number of executeTrade calls
  \* made so far (bounds the run)
  nextClientOrderId, nExecCalls,
  \* RiskManager fields
  riskManager,
  \* TradingEngine fields
  isRunning, accountInfo, openPositions,
  \* the positions the exchange holds for the account
  exchPositions,
  \* the trades table of the database
  trades,
  \* the processSignal call each caller has in progress, and the number of
  \* processSignal calls made so far (bounds the run)
  sig, nSignals,
  \* the checkTradeRisk call that returned last, and the number of
  \* updateRiskMetrics calls made so far (bounds the run)
  riskCall, nRiskUpdates,
  \* the client order ids of the updateOrderStatus calls that await the
  \* exchange's answer, in ascending order
  statusCall,
  \* BingXClient fields
  rateLimitQueue, isProcessingQueue,
  \* the processQueue loops in progress, the requests handed to axios in the
  \* order of their sending, and the promise of each makeRequest call made so
  \* far (request k is the k-th one enqueued)
  queueLoops, sent, promises,
  \* the calculatePositionSize call that returned or threw last
  sizing,
  \* the validateWebhookPayload call that returned last
  validation,
  \* what the account has realised on the exchange since the day began
  realizedPnL

smVars == <<emergencyStop, circuitBreaker, consecutiveLosses, dailyLoss,
            lastResetTime>>
safetyVars == <<smVars, now, nUpdates, safetyStatus>>
execVars == <<activeOrders, orderHistory, exec, nextClientOrderId, nExecCalls>>
engineVars == <<riskManager, isRunning, accountInfo, openPositions,
                exchPositions, trades, sig, nSignals>>
riskVars == <<riskCall, nRiskUpdates>>
\* state of the operations the TradingEngine never calls
clientVars == <<rateLimitQueue, isProcessingQueue, queueLoops, sent, promises>>
\* results of the functions called on their own
pureVars == <<sizing, validation>>
unitVars == <<riskVars, statusCall, clientVars, pureVars, realizedPnL>>
outsideSafety == <<execVars, engineVars, unitVars>>
outsideExec == <<smVars, now, nUpdates, engineVars, unitVars>>
outsideRisk == <<safetyVars, execVars, isRunning, accountInfo, openPositions,
                 exchPositions, trades, sig, nSignals, statusCall, clientVars,
                 pureVars, realizedPnL>>
outsideDb == <<smVars, nUpdates, execVars, riskManager, isRunning, accountInfo,
               openPositions, exchPositions, sig, nSignals, unitVars>>
outsideClient == <<safetyVars, execVars, engineVars, riskVars, statusCall,
                   pureVars, realizedPnL>>
outsideSizer == <<safetyVars, execVars, engineVars, riskVars, statusCall,
                  clientVars, validation, realizedPnL>>
outsideValidator == <<safetyVars, execVars, engineVars, riskVars, statusCall,
                      clientVars, sizing, realizedPnL>>
vars == <<safetyVars, execVars, engineVars, unitVars>>

-----------------------------------------------------------------------------
(***************************************************************************)
(* SafetyManager                                                           *)
(***************************************************************************)

\* no checkSafety call has just returned (lastCheck is no timestamp)
NoStatus == [isTradingEnabled |-> TRUE, circuitBreakerActive |-> FALSE,
             emergencyStopActive |-> FALSE, warnings |-> <<>>,
             lastCheck |-> -1, riskLevel |-> "LOW"]

\* constructor: circuitBreaker
InitialCircuitBreaker ==
  [isActive |-> FALSE, triggerTime |-> 0, triggerReason |-> "",
   cooldownPeriod |-> cooldownMinutes, autoReset |-> TRUE]

\* triggerCircuitBreaker(reason): the whole record is replaced
triggeredBreaker(reason) ==
  [isActive |-> TRUE, triggerTime |-> now, triggerReason |-> reason,
   cooldownPeriod |-> cooldownMinutes, autoReset |-> TRUE]

\* resetCircuitBreaker(): only isActive is cleared
resetBreaker(cb) == [cb EXCEPT !.isActive = FALSE]

\* the calendar day of a timestamp (getDate/getMonth/getFullYear compared)
DayOf(t) == t \div MinutesPerDay

\* a value in millionths exceeds a whole amount
valueAbove(value, amount) ==
  \/ value \div QtyScale > amount
  \/ value \div QtyScale = amount /\ value % QtyScale # 0

\* openPositions.reduce(sum + positionAmt * entryPrice, 0), in millionths
RECURSIVE totalPositionValue(_)
totalPositionValue(ps) ==
  IF ps = <<>> THEN 0
  ELSE totalPositionValue(SubSeq(ps, 1, Len(ps) - 1))
       + ps[Len(ps)].positionAmt * ps[Len(ps)].entryPrice

\* currentLeverage = totalPositionValue / balance; currentLeverage > maxLeverage
\* (IEEE division: x/0 is +-Infinity, 0/0 is NaN and compares false)
leverageExceeded(total, balance) ==
  IF balance > 0 THEN valueAbove(total, maxLeverage * balance)
  ELSE IF balance = 0 THEN total > 0
  ELSE total \div QtyScale < maxLeverage * balance

\* updateConsecutiveLosses: scan from the end of the array backwards
RECURSIVE countLosses(_)
countLosses(closedTrades) ==
  IF closedTrades = <<>> THEN 0
  ELSE LET t == closedTrades[Len(closedTrades)]
       IN IF t.pnl < 0 THEN 1 + countLosses(SubSeq(closedTrades, 1, Len(closedTrades) - 1))
          ELSE 0

\* faulty variant: the emergency stop looked at only when the breaker is not active
emergencyStopCheck_afterBreaker == emergencyStop /\ ~circuitBreaker.isActive

\* checkSafety line 74: if (this.emergencyStop)
emergencyStopCheck == emergencyStop

\* checkSafety lines 75-82: the status returned while the emergency stop is on
emergencyStopStatus ==
  [isTradingEnabled |-> FALSE, circuitBreakerActive |-> FALSE,
   emergencyStopActive |-> TRUE, warnings |-> <<"Emergency stop is active">>,
   lastCheck |-> now, riskLevel |-> "CRITICAL"]

\* faulty variant: the cooldown still holds at the instant it has elapsed
inCooldown_inclusive(cb) == now - cb.triggerTime <= cb.cooldownPeriod

\* checkSafety line 88: timeSinceTrigger < cooldownPeriod
inCooldown(cb) == now - cb.triggerTime < cb.cooldownPeriod

\* checkSafety lines 89-96: the status returned inside the cooldown
cooldownStatus ==
  [isTradingEnabled |-> FALSE, circuitBreakerActive |-> TRUE,
   emergencyStopActive |-> FALSE,
   warnings |-> <<"Circuit breaker active">>,
   lastCheck |-> now, riskLevel |-> "HIGH"]

\* the checks of lines 102-161 in program order: <<fired, warning, level it
\* assigns ("" for none), disables trading, reason it trips the breaker with>>
safetyChecks(account, positions, riskMetrics) ==
  LET balance == account.availableBalance
      total == totalPositionValue(positions)
  IN << [fired |-> balance < minBalance,
         warning |-> "Balance below minimum threshold",
         level |-> "CRITICAL", blocks |-> TRUE, trips |-> ""],
        [fired |-> dailyLoss < -maxDailyLoss,
         warning |-> "Daily loss limit exceeded",
         level |-> "CRITICAL", blocks |-> TRUE,
         trips |-> "Daily loss limit exceeded"],
        [fired |-> riskMetrics.maxDrawdown > maxDrawdown,
         warning |-> "Maximum drawdown exceeded",
         level |-> "CRITICAL", blocks |-> TRUE,
         trips |-> "Maximum drawdown exceeded"],
        [fired |-> Len(positions) >= maxOpenPositions,
         warning |-> "Maximum open positions reached",
         level |-> "HIGH", blocks |-> FALSE, trips |-> ""],
        [fired |-> valueAbove(total, maxPositionSize),
         warning |-> "Maximum position size exceeded",
         level |-> "HIGH", blocks |-> FALSE, trips |-> ""],
        [fired |-> consecutiveLosses >= maxConsecutiveLosses,
         warning |-> "Maximum consecutive losses reached",
         level |-> "HIGH", blocks |-> FALSE,
         trips |-> "Maximum consecutive losses reached"],
        [fired |-> riskMetrics.volatility > maxVolatility,
         warning |-> "High volatility detected",
         level |-> "MEDIUM", blocks |-> FALSE, trips |-> ""],
        [fired |-> leverageExceeded(total, balance),
         warning |-> "Maximum leverage exceeded",
         level |-> "HIGH", blocks |-> FALSE, trips |-> ""] >>

\* riskLevel = '<level>' in a fired check: a plain assignment
assignRiskLevel(current, level) == level

\* faulty variant: the last check that fires decides whether trading is
\* enabled, as it decides the risk level
RECURSIVE runChecks_lastDecides(_, _)
runChecks_lastDecides(checks, acc) ==
  IF checks = <<>> THEN acc
  ELSE LET c == Head(checks)
           next == IF c.fired
                   THEN [warnings |-> Append(acc.warnings, c.warning),
                         riskLevel |-> assignRiskLevel(acc.riskLevel, c.level),
                         isTradingEnabled |-> ~c.blocks,
                         cb |-> IF c.trips # "" THEN triggeredBreaker(c.trips)
                                ELSE acc.cb]
                   ELSE acc
       IN runChecks_lastDecides(Tail(checks), next)

\* faulty variant: every check that trips the breaker also disables trading
RECURSIVE runChecks_trippingBlocks(_, _)
runChecks_trippingBlocks(checks, acc) ==
  IF checks = <<>> THEN acc
  ELSE LET c == Head(checks)
           next == IF c.fired
                   THEN [warnings |-> Append(acc.warnings, c.warning),
                         riskLevel |-> assignRiskLevel(acc.riskLevel, c.level),
                         isTradingEnabled |-> acc.isTradingEnabled /\ ~c.blocks
                                              /\ c.trips = "",
                         cb |-> IF c.trips # "" THEN triggeredBreaker(c.trips)
                                ELSE acc.cb]
                   ELSE acc
       IN runChecks_trippingBlocks(Tail(checks), next)

\* running the checks in order over the locals warnings, riskLevel,
\* isTradingEnabled and over this.circuitBreaker
RECURSIVE runChecks(_, _)
runChecks(checks, acc) ==
  IF checks = <<>> THEN acc
  ELSE LET c == Head(checks)
           next == IF c.fired
                   THEN [warnings |-> Append(acc.warnings, c.warning),
                         riskLevel |-> assignRiskLevel(acc.riskLevel, c.level),
                         isTradingEnabled |-> acc.isTradingEnabled /\ ~c.blocks,
                         cb |-> IF c.trips # "" THEN triggeredBreaker(c.trips)
                                ELSE acc.cb]
                   ELSE acc
       IN runChecks(Tail(checks), next)

\* checkSafety: the returned SafetyStatus with the fields it leaves behind
checkSafetyResult(account, positions, riskMetrics, recentTrades) ==
  IF emergencyStopCheck
  THEN [status |-> emergencyStopStatus, cb |-> circuitBreaker,
        consecutiveLosses |-> consecutiveLosses]
  ELSE IF circuitBreaker.isActive /\ inCooldown(circuitBreaker)
  THEN [status |-> cooldownStatus, cb |-> circuitBreaker,
        consecutiveLosses |-> consecutiveLosses]
  ELSE LET cb0 == IF circuitBreaker.isActive /\ circuitBreaker.autoReset
                  THEN resetBreaker(circuitBreaker) ELSE circuitBreaker
           r == runChecks(safetyChecks(account, positions, riskMetrics),
                          [warnings |-> <<>>, riskLevel |-> "LOW",
                           isTradingEnabled |-> TRUE, cb |-> cb0])
       IN [status |-> [isTradingEnabled |-> r.isTradingEnabled,
                       circuitBreakerActive |-> r.cb.isActive,
                       emergencyStopActive |-> emergencyStop,
                       warnings |-> r.warnings,
                       lastCheck |-> now, riskLevel |-> r.riskLevel],
           cb |-> r.cb,
           consecutiveLosses |-> countLosses(recentTrades)]

(***************************************************************************)
(* Inputs of checkSafety.                                                  *)
(***************************************************************************)
AccountInputs == {[availableBalance |-> b] : b \in {50, 10000}}

Pos(amt, price) ==
  [symbol |-> "BTCUSDT", positionSide |-> "LONG", positionAmt |-> amt * QtyScale,
   entryPrice |-> price]

PositionInputs == { <<>>, <<Pos(2, 600)>>,
                    <<Pos(1, 100), Pos(1, 100), Pos(1, 100)>> }

MetricInputs == { [maxDrawdown |-> 5, volatility |-> 25],
                  [maxDrawdown |-> 15, volatility |-> 25],
                  [maxDrawdown |-> 5, volatility |-> 60] }

Trade(p) == [pnl |-> p]

RECURSIVE Losses(_)
Losses(k) == IF k = 0 THEN <<>> ELSE Append(Losses(k - 1), Trade(-10))

\* recent trades: none, a loss followed by a win, and a break-even trade
\* followed by MaxTrades losses in a row
TradeInputs ==
  { <<>>, <<Trade(-10), Trade(10)>>, <<Trade(0)>> \o Losses(MaxTrades) }

PnLInputs == {-600, -5}

(***************************************************************************)
(* SafetyManager operations                                                *)
(***************************************************************************)
checkSafety(account, positions, riskMetrics, recentTrades) ==
  \E r \in {checkSafetyResult(account, positions, riskMetrics, recentTrades)} :
     /\ circuitBreaker' = r.cb
     /\ consecutiveLosses' = r.consecutiveLosses
     /\ safetyStatus' = r.status
     /\ UNCHANGED <<emergencyStop, dailyLoss, lastResetTime>>

CheckSafety ==
  /\ \E a \in AccountInputs, p \in PositionInputs, m \in MetricInputs,
        t \in TradeInputs : checkSafety(a, p, m, t)
  /\ UNCHANGED <<now, nUpdates, outsideSafety>>

triggerCircuitBreaker(reason) ==
  /\ circuitBreaker' = triggeredBreaker(reason)
  /\ safetyStatus' = NoStatus
  /\ UNCHANGED <<emergencyStop, consecutiveLosses, dailyLoss, lastResetTime>>

TriggerCircuitBreaker ==
  /\ triggerCircuitBreaker("Manual")
  /\ UNCHANGED <<now, nUpdates, outsideSafety>>

resetCircuitBreaker ==
  /\ circuitBreaker' = resetBreaker(circuitBreaker)
  /\ safetyStatus' = NoStatus
  /\ UNCHANGED <<emergencyStop, consecutiveLosses, dailyLoss, lastResetTime,
                 now, nUpdates, outsideSafety>>

\* faulty variant: activating the emergency stop also trips the breaker
activateEmergencyStop_tripsBreaker ==
  /\ emergencyStop' = TRUE
  /\ circuitBreaker' = triggeredBreaker("Emergency stop")
  /\ safetyStatus' = NoStatus
  /\ UNCHANGED <<consecutiveLosses, dailyLoss, lastResetTime,
                 now, nUpdates, outsideSafety>>

activateEmergencyStop ==
  /\ emergencyStop' = TRUE
  /\ safetyStatus' = NoStatus
  /\ UNCHANGED <<circuitBreaker, consecutiveLosses, dailyLoss, lastResetTime,
                 now, nUpdates, outsideSafety>>

deactivateEmergencyStop ==
  /\ emergencyStop' = FALSE
  /\ safetyStatus' = NoStatus
  /\ UNCHANGED <<circuitBreaker, consecutiveLosses, dailyLoss, lastResetTime,
                 now, nUpdates, outsideSafety>>

\* faulty variant: a new day restarts the clock of the day and the loss
\* streak but keeps accumulating the daily loss
updateDailyLoss_accumulates(pnl) ==
  /\ dailyLoss' = dailyLoss + pnl
  /\ IF DayOf(lastResetTime) # DayOf(now)
     THEN lastResetTime' = now /\ consecutiveLosses' = 0
     ELSE UNCHANGED <<lastResetTime, consecutiveLosses>>
  /\ safetyStatus' = NoStatus
  /\ UNCHANGED <<emergencyStop, circuitBreaker>>

updateDailyLoss(pnl) ==
  /\ IF DayOf(lastResetTime) # DayOf(now)
     THEN /\ dailyLoss' = pnl
          /\ lastResetTime' = now
          /\ consecutiveLosses' = 0
     ELSE /\ dailyLoss' = dailyLoss + pnl
          /\ UNCHANGED <<lastResetTime, consecutiveLosses>>
  /\ safetyStatus' = NoStatus
  /\ UNCHANGED <<emergencyStop, circuitBreaker>>

UpdateDailyLoss ==
  /\ nUpdates < MaxUpdates
  /\ nUpdates' = nUpdates + 1
  /\ \E pnl \in PnLInputs : updateDailyLoss(pnl)
  /\ UNCHANGED <<now, outsideSafety>>

\* the passing of time
TicksUsed == (now \div MinutesPerDay) + ((now % MinutesPerDay) \div TickMinutes)

Tick ==
  /\ TicksUsed < MaxTicks
  /\ \E dt \in {TickMinutes, MinutesPerDay} : now' = now + dt
  /\ safetyStatus' = NoStatus
  /\ UNCHANGED <<smVars, nUpdates, outsideSafety>>

-----------------------------------------------------------------------------
(***************************************************************************)
(* RiskManager                                                             *)
(***************************************************************************)

\* a ProcessedSignal, and the value of a local that holds none
NoSignal == [id |-> 0, symbol |-> "", action |-> "", confidence |-> 0,
             strength |-> ""]

\* accountInfo: null until the first successful getAccountInfo
NoAccountInfo == [isNull |-> TRUE, availableBalance |-> 0]
AccountInfo(balance) == [isNull |-> FALSE, availableBalance |-> balance]

\* the fields of a new RiskManager (no trade history, no volatility data)
InitialRiskManager == [dailyPnL |-> 0, maxDrawdown |-> 0, peakBalance |-> 0]

\* faulty variant: the peak follows the balance down as well as up
peakAfter_follows(rm, currentBalance) == currentBalance

\* calculateDrawdown: the peak it leaves behind
peakAfter(rm, currentBalance) ==
  IF rm.peakBalance = 0 \/ currentBalance > rm.peakBalance THEN currentBalance
  ELSE rm.peakBalance

\* calculateDrawdown(balance) > limit, the drawdown being
\* (peakBalance - balance) / peakBalance * 100
drawdownAbove(rm, currentBalance, limit) ==
  /\ rm.peakBalance # 0
  /\ currentBalance <= rm.peakBalance
  /\ (rm.peakBalance - currentBalance) * 100 > limit * rm.peakBalance

\* getRiskMetrics: the two metrics checkSafety reads (calculateVolatility is
\* 0 with fewer than two recorded trades), and the RiskManager it leaves
getRiskMetrics(rm, accountBalance) ==
  [metrics |-> [maxDrawdown |-> rm.maxDrawdown, volatility |-> 0],
   rm |-> [rm EXCEPT !.peakBalance = peakAfter(rm, accountBalance)]]

\* getVolatility(symbol) with no price data recorded for the symbol
getVolatility == 0

\* calculateStopLevels; riskRewardRatio is takeProfitPercent / stopLossPercent
calculateStopLevels_volatility(signal, currentPrice, volatility, useVolatilityStops) ==
  LET stopLossDistance == (volatility * currentPrice * 2) \div 100
      takeProfitDistance ==
        (stopLossDistance * takeProfitPercent) \div stopLossPercent
  IN IF signal.action = "BUY"
     THEN [stopLossPrice |-> currentPrice - stopLossDistance,
           takeProfitPrice |-> currentPrice + takeProfitDistance]
     ELSE [stopLossPrice |-> currentPrice + stopLossDistance,
           takeProfitPrice |-> currentPrice - takeProfitDistance]
calculateStopLevels(signal, currentPrice, volatility, useVolatilityStops) ==
  LET byVolatility == volatility # 0 /\ useVolatilityStops
      stopLossDistance ==
        IF byVolatility THEN (volatility * currentPrice * 2) \div 100
        ELSE (currentPrice * stopLossPercent) \div 100
      takeProfitDistance ==
        IF byVolatility
        THEN (stopLossDistance * takeProfitPercent) \div stopLossPercent
        ELSE (currentPrice * takeProfitPercent) \div 100
  IN IF signal.action = "BUY"
     THEN [stopLossPrice |-> currentPrice - stopLossDistance,
           takeProfitPrice |-> currentPrice + takeProfitDistance]
     ELSE [stopLossPrice |-> currentPrice + stopLossDistance,
           takeProfitPrice |-> currentPrice - takeProfitDistance]

NoRiskCheck == [shouldTrade |-> FALSE, riskLevel |-> "LOW", warnings |-> <<>>,
                stopLossPrice |-> 0, takeProfitPrice |-> 0]

\* checkTradeRisk: the result and the RiskManager it leaves
\* (calculateDrawdown moves the peak)
checkTradeRisk(rm, signal, currentPrice, accountBalance, positions, volatility, useVolatilityStops) ==
  LET dailyLoss_ == rm.dailyPnL * 100 < -(accountBalance * maxRiskPerTrade)
      drawdown == drawdownAbove(rm, accountBalance, 10)
      concentrated == \E i \in 1..Len(positions) : positions[i].symbol = signal.symbol
      volatile == volatility > 50
      stops == calculateStopLevels(signal, currentPrice, volatility,
                                   useVolatilityStops)
  IN [result |->
        [shouldTrade |-> ~dailyLoss_ /\ ~drawdown,
         riskLevel |-> IF volatile \/ concentrated THEN "HIGH"
                       ELSE IF dailyLoss_ \/ drawdown THEN "CRITICAL"
                       ELSE "LOW",
         warnings |->
           (IF dailyLoss_ THEN <<"Daily loss limit reached">> ELSE <<>>)
           \o (IF drawdown THEN <<"Maximum drawdown exceeded">> ELSE <<>>)
           \o (IF concentrated THEN <<"Position already exists for this symbol">>
               ELSE <<>>)
           \o (IF volatile THEN <<"High volatility detected">> ELSE <<>>),
         stopLossPrice |-> stops.stopLossPrice,
         takeProfitPrice |-> stops.takeProfitPrice],
      rm |-> [rm EXCEPT !.peakBalance = peakAfter(rm, accountBalance)]]

\* a drawdown percentage is kept rounded up to a whole percent, which keeps
\* the outcome of every comparison with a whole-percent limit; Infinity and
\* NaN are what a division by a zero peak balance gives
Infinity == 1000 * 1000
NaN == -1
mathMax(a, b) == IF a = NaN \/ b = NaN THEN NaN ELSE IF a > b THEN a ELSE b
percentOf(loss, peak) ==
  IF peak = 0 THEN (IF loss = 0 THEN NaN ELSE Infinity)
  ELSE (loss * 100 + peak - 1) \div peak

\* calculateDrawdown(currentBalance): the percentage it returns
calculateDrawdown(rm, currentBalance) ==
  IF rm.peakBalance = 0 \/ currentBalance > rm.peakBalance THEN 0
  ELSE percentOf(rm.peakBalance - currentBalance, rm.peakBalance)

\* updateRiskMetrics(pnl): the RiskManager it leaves
updatedRiskMetrics(rm, pnl) ==
  LET daily == rm.dailyPnL + pnl
      currentBalance == rm.peakBalance + daily
  IN IF currentBalance > rm.peakBalance
     THEN [rm EXCEPT !.dailyPnL = daily, !.peakBalance = currentBalance]
     ELSE [rm EXCEPT !.dailyPnL = daily,
                     !.maxDrawdown =
                        mathMax(@, percentOf(rm.peakBalance - currentBalance,
                                             rm.peakBalance))]

-----------------------------------------------------------------------------
(***************************************************************************)
(* PositionSizer.  Quantities are in millionths of a unit; a strategy's    *)
(* share of the balance is in millionths too; confidence is in hundredths. *)
(***************************************************************************)

\* a / b for b > 0, rounded to the nearest value that can be held (a double
\* is rounded to the nearest double, here to the nearest millionth)
divide(a, b) == (a + b \div 2) \div b

\* getSignalStrengthMultiplier, in tenths
signalStrengthMultiplier(strength) ==
  CASE strength = "STRONG" -> 12 [] strength = "WEAK" -> 7 [] OTHER -> 10

\* Math.sqrt of a confidence in hundredths, in tenths, for the confidences
\* that are squares of tenths
sqrtTenths(confidence) == CHOOSE s \in 0..10 : s * s = confidence

\* share of the balance of calculateFixedPercentage
fixedShare(request) ==
  positionSizePercent * signalStrengthMultiplier(request.signalStrength) * 1000

quantityOf(request, share) == divide(request.accountBalance * share, request.price)

calculateFixedPercentage(request) == quantityOf(request, fixedShare(request))

\* kellyFraction * 0.25 = (3.5 p - 1) / 10, never below 0
calculateKellyCriterion(request) ==
  LET conservativeKelly == 35 * request.confidence - 1000
  IN quantityOf(request, IF conservativeKelly > 0 THEN conservativeKelly * 100 ELSE 0)

calculateVolatilityAdjusted(request) ==
  IF request.volatility = 0 THEN 0
  ELSE LET reduced == 100 - request.volatility
           volatilityMultiplier == IF reduced > 10 THEN reduced ELSE 10
       IN divide(calculateFixedPercentage(request) * volatilityMultiplier, 100)

\* Math.pow(confidence, 1.5) is the cube of the square root
calculateConfidenceBased(request) ==
  LET s == sqrtTenths(request.confidence)
  IN divide(calculateFixedPercentage(request) * s * s * s, 1000)

\* the strategy weights of combineStrategies, in hundredths
strategyWeights(confidence) ==
  IF confidence > 80
  THEN [fixedPercentage |-> 20, kellyCriterion |-> 35, volatilityAdjusted |-> 15,
        confidenceBased |-> 30]
  ELSE IF confidence < 50
  THEN [fixedPercentage |-> 40, kellyCriterion |-> 15, volatilityAdjusted |-> 35,
        confidenceBased |-> 10]
  ELSE [fixedPercentage |-> 30, kellyCriterion |-> 25, volatilityAdjusted |-> 25,
        confidenceBased |-> 20]

combineStrategies(request) ==
  LET weights == strategyWeights(request.confidence)
  IN divide( calculateFixedPercentage(request) * weights.fixedPercentage
             + calculateKellyCriterion(request) * weights.kellyCriterion
             + calculateVolatilityAdjusted(request) * weights.volatilityAdjusted
             + calculateConfidenceBased(request) * weights.confidenceBased,
             100 )

\* quantity * price > amount, amount in millionths of a dollar
notionalAbove_never(quantity, price, amount) == FALSE
notionalAbove(quantity, price, amount) == quantity * price > amount

\* the amounts of applyRiskConstraints are in millionths of a dollar
applyRiskConstraints(quantity, request) ==
  LET maxRiskAmount ==
        IF request.maxRiskPerTrade # 0 THEN request.maxRiskPerTrade * QtyScale
        ELSE request.accountBalance * stopLossPercent * (QtyScale \div 100)
      maxQuantityByRisk ==
        divide(maxRiskAmount * 100, request.price * stopLossPercent)
      byRisk == IF notionalAbove(quantity, request.price, maxRiskAmount)
                THEN maxQuantityByRisk ELSE quantity
      \* minQuantity = 0.001
      byMinimum == IF byRisk * 1000 < QtyScale THEN 0 ELSE byRisk
      \* maximum position size: 5% of the account
      maxPositionSize_ == request.accountBalance * 5 * (QtyScale \div 100)
      maxQuantityBySize == divide(maxPositionSize_, request.price)
      bySize == IF notionalAbove(byMinimum, request.price, maxPositionSize_)
                THEN maxQuantityBySize ELSE byMinimum
  IN IF bySize > 0 THEN bySize ELSE 0

NoPositionSize == [quantity |-> 0, warnings |-> <<>>, strategy |-> ""]

\* the limit on open positions of calculatePositionSize
\* faulty variant: one position more than the limit is let through
positionLimitReached_above(currentPositions) == currentPositions > maxOpenPositions
positionLimitReached(currentPositions) == currentPositions >= maxOpenPositions

\* the input validation of calculatePositionSize: the message of the Error
\* it throws, "" when it throws none
inputError_priceOnly(request) ==
  IF request.price <= 0 THEN "Invalid price: must be greater than 0" ELSE ""
inputError(request) ==
  IF request.price <= 0 THEN "Invalid price: must be greater than 0"
  ELSE IF request.accountBalance <= 0
  THEN "Invalid account balance: must be greater than 0"
  ELSE ""

createZeroPosition_silent(warnings) ==
  [quantity |-> 0, warnings |-> <<>>, strategy |-> "ZERO_POSITION"]
createZeroPosition(warnings) ==
  [quantity |-> 0, warnings |-> warnings, strategy |-> "ZERO_POSITION"]

\* calculatePositionSize: the result, or threw and the message of the Error
\* it raises instead of returning
calculatePositionSize(request) ==
  IF inputError(request) # ""
  THEN [threw |-> TRUE, error |-> inputError(request), result |-> NoPositionSize]
  ELSE IF positionLimitReached(request.currentPositions)
  THEN [threw |-> FALSE, error |-> "",
        result |-> createZeroPosition(<<"Maximum open positions (3) reached">>)]
  ELSE [threw |-> FALSE, error |-> "",
        result |-> [quantity |-> applyRiskConstraints(combineStrategies(request),
                                                      request),
                    warnings |-> <<>>, strategy |-> "COMBINED_STRATEGY"]]

\* requests a caller may pass to calculatePositionSize (maxRiskPerTrade 0:
\* absent); the notional of a position stays below 2^31 millionths of a
\* dollar
PositionSizeRequests ==
  { r \in [symbol : {"BTCUSDT"}, price : {-100, 0, 600, 50000},
           confidence : {25, 64, 81}, signalStrength : {"STRONG", "MEDIUM", "WEAK"},
           accountBalance : {-1000, 0, 50, 1000, 10000},
           currentPositions : {0, maxOpenPositions, maxOpenPositions + 1},
           volatility : {0, 20, 80}, maxRiskPerTrade : {0, 2}] :
      r.maxRiskPerTrade # 0 \/ r.accountBalance <= 1000 }

NoSizing == [called |-> FALSE, request |-> <<>>, threw |-> FALSE, error |-> "",
             result |-> NoPositionSize]

\* the function keeps no state: one call shows all a behaviour can show
CalculatePositionSize ==
  /\ ~sizing.called
  /\ \E request \in PositionSizeRequests :
       LET size == calculatePositionSize(request)
       IN sizing' = [called |-> TRUE, request |-> request, threw |-> size.threw,
                     error |-> size.error, result |-> size.result]
  /\ UNCHANGED outsideSizer

-----------------------------------------------------------------------------
(***************************************************************************)
(* TradeExecutionEngine                                                    *)
(***************************************************************************)

\* the callers that may have an executeTrade call in progress
Procs == {"A", "B"}

\* a call of client.placeOrder resolves with an order id or rejects with an
\* error message
ErrorMessages == {"Request timeout", "Insufficient margin"}
PlaceOrderOutcomes ==
  {[ok |-> TRUE, error |-> ""]} \cup {[ok |-> FALSE, error |-> e] : e \in ErrorMessages}

\* error texts of a TradeExecutionResult: the fixed text, the attempt count
\* and the detail interpolated into it
NoError == [text |-> "", attempts |-> 0, detail |-> <<>>]
riskCheckFailedError(warnings) ==
  [text |-> "Risk check failed: ", attempts |-> 0, detail |-> warnings]
invalidPositionSizeError ==
  [text |-> "Invalid position size", attempts |-> 0, detail |-> <<>>]
retriesExhaustedError(lastError) ==
  [text |-> "Order placement failed after attempts: ", attempts |-> maxRetries,
   detail |-> <<lastError>>]

NoResult == [success |-> FALSE, orderId |-> 0, clientOrderId |-> 0,
             executedPrice |-> 0, executedQuantity |-> 0, error |-> NoError,
             warnings |-> <<>>]
failureResult(error, warnings) ==
  [NoResult EXCEPT !.error = error, !.warnings = warnings]

NoRequest == [signal |-> NoSignal, riskCheck |-> NoRiskCheck,
              positionSize |-> NoPositionSize, currentPrice |-> 0]

\* results of the two bracket orders
NoBracket == [success |-> FALSE, warnings |-> <<>>]
bracketPlaced == [success |-> TRUE, warnings |-> <<>>]
stopLossFailed == [success |-> FALSE, warnings |-> <<"Failed to place stop loss order">>]
takeProfitFailed_asStopLoss == stopLossFailed
takeProfitFailed == [success |-> FALSE, warnings |-> <<"Failed to place take profit order">>]

IdleExec == [pc |-> "idle", request |-> NoRequest, clientOrderId |-> 0,
             orderId |-> 0, attempt |-> 0, lastError |-> "", calls |-> <<>>,
             stopLossOrder |-> NoBracket, result |-> NoResult]

\* a call of client.placeOrder made by an executeTrade call, with what the
\* engine keeps of its outcome: the error message of an entry attempt goes
\* to lastError, that of a bracket order only to the log file
Call(order, o) ==
  [order |-> order, ok |-> o.ok,
   error |-> IF order = "ENTRY" THEN o.error ELSE ""]

positionSizeInvalid_negative(quantity) == quantity < 0
positionSizeInvalid(quantity) == quantity <= 0

\* the retry loop goes on to another attempt
retriesLeft_inclusive(attempt) == attempt <= maxRetries
retriesLeft(attempt) == attempt < maxRetries

\* the order id the exchange assigns to an accepted order: fresh for every
\* order, here the one numbered like the order's unique client order id
exchangeOrderId(clientOrderId) == clientOrderId

orderData(e) ==
  [orderId |-> exchangeOrderId(e.clientOrderId), clientOrderId |-> e.clientOrderId,
   quantity |-> e.request.positionSize.quantity, price |-> 0,
   stopLossPrice |-> 0, takeProfitPrice |-> 0, status |-> "PENDING",
   retryCount |-> e.attempt - 1, maxRetries |-> maxRetries]

\* executeTrade lines 85-94: the entry order request of a call
entryOrderRequest(e) ==
  [symbol |-> e.request.signal.symbol,
   side |-> IF e.request.signal.action = "BUY" THEN "BUY" ELSE "SELL",
   type |-> "MARKET", quantity |-> e.request.positionSize.quantity,
   positionSide |-> IF e.request.signal.action = "BUY" THEN "LONG" ELSE "SHORT",
   timeInForce |-> "IOC", reduceOnly |-> FALSE,
   newClientOrderId |-> e.clientOrderId]

\* Map.set and Map.delete on the active-order table
mapSet(map, key, value) ==
  [k \in DOMAIN map \cup {key} |-> IF k = key THEN value ELSE map[k]]
mapDelete(map, key) == [k \in DOMAIN map \ {key} |-> map[k]]

\* executeTrade up to its first await: the two validations, then the entry
\* order request with a fresh client order id
executeTrade(p, request) ==
  /\ exec[p].pc = "idle"
  /\ IF ~request.riskCheck.shouldTrade
     THEN /\ exec' = [exec EXCEPT ![p] =
                 [IdleExec EXCEPT !.pc = "done", !.request = request,
                    !.result = failureResult(
                        riskCheckFailedError(request.riskCheck.warnings),
                        request.riskCheck.warnings)]]
          /\ UNCHANGED nextClientOrderId
     ELSE IF positionSizeInvalid(request.positionSize.quantity)
     THEN /\ exec' = [exec EXCEPT ![p] =
                 [IdleExec EXCEPT !.pc = "done", !.request = request,
                    !.result = failureResult(invalidPositionSizeError,
                                             request.positionSize.warnings)]]
          /\ UNCHANGED nextClientOrderId
     ELSE /\ exec' = [exec EXCEPT ![p] =
                 [IdleExec EXCEPT !.pc = "entry", !.request = request,
                    !.clientOrderId = nextClientOrderId, !.attempt = 1]]
          /\ nextClientOrderId' = nextClientOrderId + 1
  /\ UNCHANGED <<activeOrders, orderHistory>>

\* one attempt of placeOrderWithRetry, and what executeTrade does when the
\* loop ends without an order
placeOrderWithRetry(p, outcomes) ==
  /\ exec[p].pc = "entry"
  /\ \E o \in outcomes :
       LET e == exec[p]
           calls == Append(e.calls, Call("ENTRY", o))
       IN IF o.ok
          THEN /\ activeOrders' = mapSet(activeOrders, e.clientOrderId, orderData(e))
               /\ exec' = [exec EXCEPT ![p] =
                     [e EXCEPT !.pc = "stopLoss", !.calls = calls,
                               !.orderId = exchangeOrderId(e.clientOrderId)]]
          ELSE /\ exec' = [exec EXCEPT ![p] =
                     IF retriesLeft(e.attempt)
                     THEN [e EXCEPT !.attempt = @ + 1, !.lastError = o.error,
                                    !.calls = calls]
                     ELSE [e EXCEPT !.pc = "done", !.lastError = o.error,
                                    !.calls = calls,
                                    !.result = failureResult(
                                        retriesExhaustedError(o.error), <<>>)]]
               /\ UNCHANGED activeOrders
  /\ UNCHANGED <<orderHistory, nextClientOrderId>>

placeStopLossOrder(p, outcomes) ==
  /\ exec[p].pc = "stopLoss"
  /\ \E o \in outcomes :
       exec' = [exec EXCEPT ![p] =
             [@ EXCEPT !.pc = "takeProfit",
                       !.calls = Append(@, Call("STOP_LOSS", o)),
                       !.stopLossOrder = IF o.ok THEN bracketPlaced
                                         ELSE stopLossFailed]]
  /\ UNCHANGED <<activeOrders, orderHistory, nextClientOrderId>>

\* placeTakeProfitOrder and the successful return of executeTrade
placeTakeProfitOrder(p, outcomes) ==
  /\ exec[p].pc = "takeProfit"
  /\ \E o \in outcomes :
       LET e == exec[p]
           takeProfitOrder == IF o.ok THEN bracketPlaced ELSE takeProfitFailed
       IN exec' = [exec EXCEPT ![p] =
                [e EXCEPT !.pc = "done",
                          !.calls = Append(@, Call("TAKE_PROFIT", o)),
                          !.result =
                             [success |-> TRUE, orderId |-> e.orderId,
                              clientOrderId |-> e.clientOrderId,
                              executedPrice |-> e.request.currentPrice,
                              executedQuantity |-> e.request.positionSize.quantity,
                              error |-> NoError,
                              warnings |-> e.stopLossOrder.warnings
                                             \o takeProfitOrder.warnings]]]
  /\ UNCHANGED <<activeOrders, orderHistory, nextClientOrderId>>

\* cancelOrder on an order of the active-order table; the exchange may
\* refuse the cancellation
cancelOrder(clientOrderId) ==
  /\ clientOrderId \in DOMAIN activeOrders
  /\ \E ok \in BOOLEAN :
       IF ok
       THEN /\ orderHistory' = Append(orderHistory,
                 [activeOrders[clientOrderId] EXCEPT !.status = "CANCELLED"])
            /\ activeOrders' = mapDelete(activeOrders, clientOrderId)
       ELSE UNCHANGED <<activeOrders, orderHistory>>
  /\ UNCHANGED <<exec, nextClientOrderId>>

\* what getOrderStatus may answer: a status of the exchange with the average
\* fill price, or an error
GetOrderStatusResponses ==
  {[ok |-> TRUE, status |-> s, avgPrice |-> 50000] :
     s \in {"NEW", "PARTIALLY_FILLED", "FILLED", "CANCELED", "REJECTED",
            "EXPIRED"}}
  \cup {[ok |-> FALSE, status |-> "", avgPrice |-> 0]}

mapOrderStatus(bingxStatus) ==
  CASE bingxStatus \in {"NEW", "PARTIALLY_FILLED"} -> "PENDING"
    [] bingxStatus = "FILLED" -> "FILLED"
    [] bingxStatus = "CANCELED" -> "CANCELLED"
    [] bingxStatus \in {"REJECTED", "EXPIRED"} -> "REJECTED"
    [] OTHER -> "PENDING"

\* the order leaves the active-order table on this status of the exchange
leavesActiveOrders(bingxStatus) == bingxStatus = "FILLED"

\* updateOrderStatus after its await: the order object read before the await
\* is updated wherever it is by now (the table, or the history list once a
\* cancelOrder has moved it there)
updateOrderStatusResolves(clientOrderId, response) ==
  LET updated(o) ==
        IF o.clientOrderId # clientOrderId THEN o
        ELSE [o EXCEPT !.status = mapOrderStatus(response.status),
                       !.price = IF response.status = "FILLED"
                                 THEN response.avgPrice ELSE @]
      history == [i \in 1..Len(orderHistory) |-> updated(orderHistory[i])]
      held == clientOrderId \in DOMAIN activeOrders
      order == IF held THEN updated(activeOrders[clientOrderId])
               ELSE CHOOSE o \in {history[i] : i \in 1..Len(history)} :
                      o.clientOrderId = clientOrderId
  IN IF ~response.ok THEN UNCHANGED <<activeOrders, orderHistory>>
     ELSE IF leavesActiveOrders(response.status)
     THEN /\ orderHistory' = Append(history, order)
          /\ activeOrders' = mapDelete(activeOrders, clientOrderId)
     ELSE /\ orderHistory' = history
          /\ activeOrders' = IF held
                             THEN mapSet(activeOrders, clientOrderId, order)
                             ELSE activeOrders

\* requests a caller may pass to executeTrade
RiskCheckInputs ==
  { [shouldTrade |-> TRUE, riskLevel |-> "LOW", warnings |-> <<>>,
     stopLossPrice |-> 49000, takeProfitPrice |-> 52000],
    [shouldTrade |-> FALSE, riskLevel |-> "CRITICAL",
     warnings |-> <<"Daily loss limit reached">>,
     stopLossPrice |-> 49000, takeProfitPrice |-> 52000] }
PositionSizeInputs ==
  { [quantity |-> 2000, warnings |-> <<>>, strategy |-> "COMBINED_STRATEGY"],
    [quantity |-> 0, warnings |-> <<"Maximum open positions (3) reached">>,
     strategy |-> "ZERO_POSITION"] }
ExecRequests ==
  { [signal |-> [id |-> 1, symbol |-> "BTCUSDT", action |-> "BUY",
                 confidence |-> 64, strength |-> "MEDIUM"],
     riskCheck |-> r, positionSize |-> s, currentPrice |-> 50000] :
      r \in RiskCheckInputs, s \in PositionSizeInputs }

ExecuteTrade ==
  /\ safetyStatus' = NoStatus
  /\ nExecCalls < MaxExecCalls
  /\ nExecCalls' = nExecCalls + 1
  /\ \E p \in Procs, request \in ExecRequests :
       \* callers are interchangeable: the second one is used only while the
       \* first has a call in progress
       /\ p = "B" => exec["A"].pc # "idle"
       /\ executeTrade(p, request)
  /\ UNCHANGED outsideExec

PlaceOrderWithRetry ==
  /\ safetyStatus' = NoStatus
  /\ \E p \in Procs : placeOrderWithRetry(p, PlaceOrderOutcomes)
  /\ UNCHANGED <<nExecCalls, outsideExec>>

PlaceStopLossOrder ==
  /\ safetyStatus' = NoStatus
  /\ \E p \in Procs : placeStopLossOrder(p, PlaceOrderOutcomes)
  /\ UNCHANGED <<nExecCalls, outsideExec>>

PlaceTakeProfitOrder ==
  /\ safetyStatus' = NoStatus
  /\ \E p \in Procs : placeTakeProfitOrder(p, PlaceOrderOutcomes)
  /\ UNCHANGED <<nExecCalls, outsideExec>>

\* the caller takes the result of its executeTrade call
ExecuteTradeReturns ==
  /\ safetyStatus' = NoStatus
  /\ \E p \in Procs : /\ exec[p].pc = "done"
                      /\ exec' = [exec EXCEPT ![p] = IdleExec]
  /\ UNCHANGED <<activeOrders, orderHistory, nextClientOrderId, nExecCalls,
                 outsideExec>>

CancelOrder ==
  /\ safetyStatus' = NoStatus
  /\ \E id \in DOMAIN activeOrders : cancelOrder(id)
  /\ UNCHANGED <<nExecCalls, outsideExec>>

\* updateOrderStatus up to its await: null is returned for an unknown order
UpdateOrderStatus ==
  /\ safetyStatus' = NoStatus
  /\ Len(statusCall) < MaxStatusCalls
  /\ \E clientOrderId \in DOMAIN activeOrders :
       statusCall' = SelectSeq(statusCall, LAMBDA c : c <= clientOrderId)
                     \o <<clientOrderId>>
                     \o SelectSeq(statusCall, LAMBDA c : c > clientOrderId)
  /\ UNCHANGED <<execVars, smVars, now, nUpdates, engineVars, riskVars,
                 clientVars, pureVars, realizedPnL>>

UpdateOrderStatusResolves ==
  /\ safetyStatus' = NoStatus
  /\ \E i \in 1..Len(statusCall), r \in GetOrderStatusResponses :
       /\ updateOrderStatusResolves(statusCall[i], r)
       /\ statusCall' = SubSeq(statusCall, 1, i - 1)
                        \o SubSeq(statusCall, i + 1, Len(statusCall))
  /\ UNCHANGED <<exec, nextClientOrderId, nExecCalls, smVars, now, nUpdates,
                 engineVars, riskVars, clientVars, pureVars, realizedPnL>>

-----------------------------------------------------------------------------
(***************************************************************************)
(* TradingEngine                                                           *)
(***************************************************************************)

\* what the exchange and the database may answer
\* the balance is what the day began with and what it has realised
Balances == {50, 10000}
GetAccountInfoResponses ==
  {[ok |-> TRUE, account |-> AccountInfo(b + realizedPnL)] :
     b \in {x \in Balances : x + realizedPnL > 0}}
  \cup {[ok |-> FALSE, account |-> NoAccountInfo]}
Prices == {50000, 200000}
GetTickerResponses ==
  {[ok |-> TRUE, price |-> x] : x \in Prices} \cup {[ok |-> FALSE, price |-> 0]}

\* the entry order of a signal is accepted or times out; a bracket order
\* is accepted or refused
EntryOutcomes == {o \in PlaceOrderOutcomes : o.error # "Insufficient margin"}
BracketOutcomes == {o \in PlaceOrderOutcomes : o.error # "Request timeout"}

\* the signals passed to processSignal: buy and sell signals for one symbol,
\* in turn
SignalInputs(id) ==
  { IF id % 2 = 1
    THEN [id |-> id, symbol |-> "BTCUSDT", action |-> "BUY", confidence |-> 64,
          strength |-> "MEDIUM"]
    ELSE [id |-> id, symbol |-> "BTCUSDT", action |-> "SELL", confidence |-> 81,
          strength |-> "STRONG"] }

\* the account holds two positions in other symbols when the engine is built
InitialExchangePositions ==
  << [symbol |-> "ETHUSDT", positionSide |-> "LONG", positionAmt |-> QtyScale,
      entryPrice |-> 100],
     [symbol |-> "SOLUSDT", positionSide |-> "LONG", positionAmt |-> QtyScale,
      entryPrice |-> 100] >>

\* the exchange fills an accepted entry order at the current price: the
\* position of that symbol and side grows, or a new one is opened
positionSideOf(signal) == IF signal.action = "BUY" THEN "LONG" ELSE "SHORT"
filled(positions, request) ==
  LET side == positionSideOf(request.signal)
      same(i) == /\ positions[i].symbol = request.signal.symbol
                 /\ positions[i].positionSide = side
  IN IF \E i \in 1..Len(positions) : same(i)
     THEN [i \in 1..Len(positions) |->
             IF same(i)
             THEN [positions[i] EXCEPT
                     !.positionAmt = @ + request.positionSize.quantity]
             ELSE positions[i]]
     ELSE Append(positions,
                 [symbol |-> request.signal.symbol, positionSide |-> side,
                  positionAmt |-> request.positionSize.quantity,
                  entryPrice |-> request.currentPrice])

\* ORDER BY exit_time DESC: the row closed last comes first (rows closed at
\* the same instant are left in the order of the table)
RECURSIVE byExitTimeDesc(_)
byExitTimeDesc(rows) ==
  IF rows = <<>> THEN <<>>
  ELSE LET last == CHOOSE i \in 1..Len(rows) :
                     \A j \in 1..Len(rows) :
                        \/ rows[j].exitTime < rows[i].exitTime
                        \/ rows[j].exitTime = rows[i].exitTime /\ j >= i
           others == [j \in 1..(Len(rows) - 1) |->
                        IF j < last THEN rows[j] ELSE rows[j + 1]]
       IN <<rows[last]>> \o byExitTimeDesc(others)

\* database.getTradeHistory(symbol, limit): the closed trades of the symbol,
\* the one closed last first, limit of them at most
getTradeHistory(symbol, limit) ==
  LET closed == SelectSeq(trades, LAMBDA t : t.status = "CLOSED" /\ t.symbol = symbol)
      sorted == byExitTimeDesc(closed)
  IN SubSeq(sorted, 1, IF Len(sorted) < limit THEN Len(sorted) ELSE limit)

\* the locals of a processSignal call; log lists what its steps have found
\* so far: a price, trading enabled, a trade worth its risk, a quantity;
\* notified lists the notifications it has awaited, and caught names the
\* collaborator whose error its catch block has logged
NoMetrics == [maxDrawdown |-> 0, volatility |-> 0]
IdleSignal ==
  [pc |-> "idle", signal |-> NoSignal, currentPrice |-> 0,
   accountInfo |-> NoAccountInfo, openPositions |-> <<>>,
   riskMetrics |-> NoMetrics, currentPositions |-> 0, log |-> <<>>,
   notified |-> <<>>, caught |-> "", result |-> FALSE]

Decision(step, ok) == [step |-> step, ok |-> ok]

\* the locals that are read again once the price, the safety status, the
\* risk check and the position size have been used
kept(locals) ==
  [IdleSignal EXCEPT !.signal = locals.signal, !.log = locals.log,
                     !.currentPositions = locals.currentPositions,
                     !.notified = locals.notified, !.caught = locals.caught]

\* processSignal returns
returns(p, locals, result) ==
  sig' = [sig EXCEPT ![p] =
            [kept(locals) EXCEPT !.pc = "returned", !.result = result]]

\* the catch block of processSignal: the error is logged, the result false
catches_rethrows(p, locals, collaborator) ==
  sig' = [sig EXCEPT ![p] =
            [kept(locals) EXCEPT !.pc = "rejected", !.caught = collaborator]]
catches(p, locals, collaborator) ==
  returns(p, [locals EXCEPT !.caught = collaborator], FALSE)

\* NotificationManager.sendToAllChannels: how the promise settles when the
\* message is delivered by every channel, or some send fails
sendToAllChannels_all(delivered) ==
  IF delivered THEN "fulfilled" ELSE "rejected"
sendToAllChannels(delivered) == "fulfilled"

\* the NotificationMessage of a notify call (data: the keys it carries)
\* with the outcome of its delivery and of the call
sendNotification(title, type, priority, data, delivered) ==
  [title |-> title, type |-> type, priority |-> priority, data |-> data,
   delivered |-> delivered, settled |-> sendToAllChannels(delivered)]

notifySignalReceived(signal, delivered) ==
  sendNotification("Trading Signal Received", "INFO", "MEDIUM",
                   {"symbol", "action", "strength", "price", "confidence",
                    "strategy", "timeframe"}, delivered)

notifyTradeExecuted(result, signal, delivered) ==
  sendNotification(IF result.success THEN "Trade Executed Successfully"
                   ELSE "Trade Execution Failed",
                   IF result.success THEN "SUCCESS" ELSE "ERROR",
                   IF result.success THEN "MEDIUM" ELSE "HIGH",
                   {"symbol", "action", "quantity", "price", "orderId",
                    "notionalValue"}, delivered)

notifySafetyStatus(status, delivered) ==
  sendNotification("Safety Alert", "ALERT", "CRITICAL",
                   {"riskLevel", "circuitBreakerActive", "emergencyStopActive",
                    "warnings"}, delivered)

\* the tests after which processSignal gives up
priceMissing(currentPrice) == currentPrice = 0
\* faulty variant: the safety status is not looked at
safetyRejected_never(status) == FALSE
safetyRejected(status) == ~status.isTradingEnabled
riskRejected(riskCheck) == ~riskCheck.shouldTrade
quantityRejected(positionSize) == positionSize.quantity <= 0

\* faulty variant: the bracket prices stored the wrong way round
tradeRecord_swapped(signal, executionResult, request) ==
  [id |-> executionResult.orderId, signalId |-> signal.id,
   symbol |-> signal.symbol,
   side |-> IF signal.action = "BUY" THEN "BUY" ELSE "SELL",
   quantity |-> executionResult.executedQuantity,
   entryPrice |-> executionResult.executedPrice, status |-> "OPEN",
   stopLossPrice |-> request.riskCheck.takeProfitPrice,
   takeProfitPrice |-> request.riskCheck.stopLossPrice,
   confidence |-> signal.confidence,
   strategy |-> request.positionSize.strategy]

\* the record processSignal hands to storeTrade
tradeRecord(signal, executionResult, request) ==
  [id |-> executionResult.orderId, signalId |-> signal.id,
   symbol |-> signal.symbol,
   side |-> IF signal.action = "BUY" THEN "BUY" ELSE "SELL",
   quantity |-> executionResult.executedQuantity,
   entryPrice |-> executionResult.executedPrice, status |-> "OPEN",
   stopLossPrice |-> request.riskCheck.stopLossPrice,
   takeProfitPrice |-> request.riskCheck.takeProfitPrice,
   confidence |-> signal.confidence,
   strategy |-> request.positionSize.strategy]

\* start(): the database is opened and the account read once
Start ==
  /\ safetyStatus' = NoStatus
  /\ ~isRunning
  /\ isRunning' = TRUE
  /\ \E r \in GetAccountInfoResponses :
       accountInfo' = IF r.ok THEN r.account ELSE accountInfo
  /\ UNCHANGED <<unitVars, smVars, now, nUpdates, execVars, riskManager, openPositions,
                 exchPositions, trades, sig, nSignals>>

\* updateAccountInfo: an error is logged and the old value kept
updateAccountInfo ==
  \E r \in GetAccountInfoResponses :
     accountInfo' = IF r.ok THEN r.account ELSE accountInfo

\* updatePositions: an error is logged and the old value kept
updatePositions ==
  \E ok \in BOOLEAN :
     openPositions' = IF ok THEN exchPositions ELSE openPositions

\* some processSignal call will still read accountInfo or openPositions
awaited == \E p \in Procs : sig[p].pc \in {"account", "positions", "price", "history"}

\* the two refreshes of the 30-second timer, taken when a call in progress
\* can see them (a refresh between calls is one at the start of the next)
MonitorAccountInfo ==
  /\ safetyStatus' = NoStatus
  /\ isRunning
  /\ awaited
  /\ updateAccountInfo
  /\ UNCHANGED <<unitVars, smVars, now, nUpdates, execVars, riskManager, isRunning, openPositions,
                 exchPositions, trades, sig, nSignals>>

MonitorPositions ==
  /\ safetyStatus' = NoStatus
  /\ isRunning
  /\ awaited
  /\ updatePositions
  /\ UNCHANGED <<unitVars, smVars, now, nUpdates, execVars, riskManager, isRunning, accountInfo,
                 exchPositions, trades, sig, nSignals>>

\* processSignal up to its first await: the engine must be running
processSignal(p, signal) ==
  /\ sig[p].pc = "idle"
  /\ IF ~isRunning
     THEN returns(p, [IdleSignal EXCEPT !.signal = signal], FALSE)
     ELSE sig' = [sig EXCEPT ![p] =
                    [IdleSignal EXCEPT !.pc = "account", !.signal = signal]]

ProcessSignal ==
  /\ safetyStatus' = NoStatus
  /\ nSignals < MaxSignals
  /\ nSignals' = nSignals + 1
  /\ \E p \in Procs, signal \in SignalInputs(nSignals + 1) :
       \* callers are interchangeable: the second one is used only while the
       \* first has a call in progress
       /\ p = "B" => sig["A"].pc # "idle"
       /\ processSignal(p, signal)
  /\ UNCHANGED <<unitVars, smVars, now, nUpdates, execVars, riskManager, isRunning, accountInfo,
                 openPositions, exchPositions, trades>>

\* processSignal called with a CLOSE signal, when no other call is in progress
CloseSignalInputs(id) ==
  { [id |-> id, symbol |-> "BTCUSDT", action |-> "CLOSE", confidence |-> 64,
     strength |-> "MEDIUM"] }

ProcessCloseSignal ==
  /\ safetyStatus' = NoStatus
  /\ nSignals < MaxSignals
  /\ nSignals' = nSignals + 1
  /\ \A p \in Procs : sig[p].pc = "idle"
  /\ \E signal \in CloseSignalInputs(nSignals + 1) : processSignal("A", signal)
  /\ UNCHANGED <<unitVars, smVars, now, nUpdates, execVars, riskManager, isRunning, accountInfo,
                 openPositions, exchPositions, trades>>

\* await this.updateAccountInfo()
UpdateAccountInfo ==
  /\ safetyStatus' = NoStatus
  /\ \E p \in Procs :
       /\ sig[p].pc = "account"
       /\ updateAccountInfo
       /\ sig' = [sig EXCEPT ![p].pc = "positions"]
  /\ UNCHANGED <<unitVars, smVars, now, nUpdates, execVars, riskManager, isRunning, openPositions,
                 exchPositions, trades, nSignals>>

\* await this.updatePositions(), then the notification of the signal
UpdatePositions ==
  /\ safetyStatus' = NoStatus
  /\ \E p \in Procs :
       /\ sig[p].pc = "positions"
       /\ updatePositions
       /\ \E delivered \in BOOLEAN :
            LET notification == notifySignalReceived(sig[p].signal, delivered)
                locals == [sig[p] EXCEPT !.notified = Append(@, notification)]
            IN IF notification.settled = "rejected"
               THEN catches(p, locals, "notifications")
               ELSE sig' = [sig EXCEPT ![p] = [locals EXCEPT !.pc = "price"]]
  /\ UNCHANGED <<unitVars, smVars, now, nUpdates, execVars, riskManager, isRunning, accountInfo,
                 exchPositions, trades, nSignals>>

\* await this.getCurrentPrice(symbol); with a price, the first three
\* arguments of checkSafety are evaluated before getTradeHistory is awaited,
\* and reading the balance of a null accountInfo throws
getCurrentPrice(p) ==
  /\ sig[p].pc = "price"
  /\ \E r \in GetTickerResponses :
       LET currentPrice == IF r.ok THEN r.price ELSE 0
           locals == [sig[p] EXCEPT !.currentPrice = currentPrice]
           metrics == getRiskMetrics(riskManager, accountInfo.availableBalance)
       IN IF priceMissing(currentPrice)
          THEN /\ returns(p, [locals EXCEPT
                               !.log = Append(@, Decision("price", r.ok))],
                          FALSE)
               /\ UNCHANGED riskManager
          ELSE IF accountInfo.isNull
          THEN /\ catches(p, [locals EXCEPT
                               !.log = Append(@, Decision("price", r.ok))],
                          "accountInfo")
               /\ UNCHANGED riskManager
          ELSE /\ sig' = [sig EXCEPT ![p] =
                           [locals EXCEPT
                              !.pc = "history",
                              !.log = Append(@, Decision("price", r.ok)),
                              !.accountInfo = accountInfo,
                              !.openPositions = openPositions,
                              !.riskMetrics = metrics.metrics]]
               /\ riskManager' = metrics.rm

GetCurrentPrice ==
  /\ safetyStatus' = NoStatus
  /\ \E p \in Procs : getCurrentPrice(p)
  /\ UNCHANGED <<unitVars, smVars, now, nUpdates, execVars, isRunning, accountInfo, openPositions,
                 exchPositions, trades, nSignals>>

\* getTradeHistory rejects: processSignal logs the error and returns false
getTradeHistoryFails(p) ==
  /\ sig[p].pc = "history"
  /\ catches(p, sig[p], "database")

GetTradeHistoryFails ==
  /\ safetyStatus' = NoStatus
  /\ \E p \in Procs : getTradeHistoryFails(p)
  /\ UNCHANGED <<unitVars, smVars, now, nUpdates, execVars, riskManager, isRunning, accountInfo,
                 openPositions, exchPositions, trades, nSignals>>

\* getTradeHistory resolves: checkSafety on the arguments evaluated before
\* the await, then checkTradeRisk and calculatePositionSize on the engine's
\* current accountInfo and openPositions, then executeTrade up to its first
\* await
decide(p) ==
  LET s == sig[p]
      recentTrades == getTradeHistory(s.signal.symbol, 10)
      status == checkSafetyResult(s.accountInfo, s.openPositions, s.riskMetrics,
                                  recentTrades).status
      accountBalance == accountInfo.availableBalance
      \* with no volatility known the stops are fixed-percentage ones
      \* whatever RiskManagementConfig.useVolatilityStops says
      risk == checkTradeRisk(riskManager, s.signal, s.currentPrice,
                             accountBalance, openPositions, getVolatility, TRUE)
      positionRequest ==
        [symbol |-> s.signal.symbol, price |-> s.currentPrice,
         confidence |-> s.signal.confidence,
         signalStrength |-> s.signal.strength,
         accountBalance |-> accountBalance,
         currentPositions |-> Len(openPositions),
         volatility |-> getVolatility, maxRiskPerTrade |-> maxRiskPerTrade]
      size == calculatePositionSize(positionRequest)
      executionRequest ==
        [signal |-> s.signal, riskCheck |-> risk.result,
         positionSize |-> size.result, currentPrice |-> s.currentPrice]
      safetyLog == Append(s.log, Decision("safety", status.isTradingEnabled))
      riskLog == Append(safetyLog, Decision("risk", risk.result.shouldTrade))
      sized == [s EXCEPT !.currentPositions = positionRequest.currentPositions]
      sizeLog == Append(riskLog, Decision("size", size.result.quantity > 0))
  IN /\ s.pc = "history"
     /\ checkSafety(s.accountInfo, s.openPositions, s.riskMetrics, recentTrades)
     /\ IF safetyRejected(status)
        THEN /\ IF status.riskLevel = "CRITICAL"
                THEN \E delivered \in BOOLEAN :
                       LET notification == notifySafetyStatus(status, delivered)
                           locals == [s EXCEPT !.log = safetyLog,
                                               !.notified = Append(@, notification)]
                       IN IF notification.settled = "rejected"
                          THEN catches(p, locals, "notifications")
                          ELSE returns(p, locals, FALSE)
                ELSE returns(p, [s EXCEPT !.log = safetyLog], FALSE)
             /\ UNCHANGED <<riskManager, execVars>>
        ELSE /\ riskManager' = risk.rm
             /\ IF riskRejected(risk.result)
                THEN /\ returns(p, [s EXCEPT !.log = riskLog], FALSE)
                     /\ UNCHANGED execVars
                ELSE IF size.threw
                THEN /\ catches(p, [sized EXCEPT !.log = riskLog],
                                "positionSizer")
                     /\ UNCHANGED execVars
                ELSE IF quantityRejected(size.result)
                THEN /\ returns(p, [sized EXCEPT !.log = sizeLog], FALSE)
                     /\ UNCHANGED execVars
                ELSE /\ executeTrade(p, executionRequest)
                     /\ sig' = [sig EXCEPT ![p] =
                                 [kept([sized EXCEPT !.log = sizeLog])
                                    EXCEPT !.pc = "executing"]]
                     /\ UNCHANGED nExecCalls

Decide ==
  /\ \E p \in Procs : decide(p)
  /\ UNCHANGED <<unitVars, now, nUpdates, isRunning, accountInfo, openPositions,
                 exchPositions, trades, nSignals>>

\* an attempt of the entry order of a processSignal call; the exchange opens
\* the position of an order it accepts
EntryOrder ==
  /\ safetyStatus' = NoStatus
  /\ \E p \in Procs :
       /\ sig[p].pc = "executing"
       /\ placeOrderWithRetry(p, EntryOutcomes)
       /\ exchPositions' = IF exec'[p].pc = "stopLoss"
                           THEN filled(exchPositions, exec[p].request)
                           ELSE exchPositions
  /\ UNCHANGED <<unitVars, smVars, now, nUpdates, nExecCalls, riskManager, isRunning, accountInfo,
                 openPositions, trades, sig, nSignals>>

\* the bracket orders of a processSignal call
StopLossOrder ==
  /\ safetyStatus' = NoStatus
  /\ \E p \in Procs : placeStopLossOrder(p, BracketOutcomes)
  /\ UNCHANGED <<nExecCalls, outsideExec>>

TakeProfitOrder ==
  /\ safetyStatus' = NoStatus
  /\ \E p \in Procs : placeTakeProfitOrder(p, BracketOutcomes)
  /\ UNCHANGED <<nExecCalls, outsideExec>>

\* executeTrade resolves, then the notification of the execution
executeTradeResolves(p) ==
  /\ sig[p].pc = "executing"
  /\ exec[p].pc = "done"
  /\ \E delivered \in BOOLEAN :
       LET notification ==
             notifyTradeExecuted(exec[p].result, sig[p].signal, delivered)
           locals == [sig[p] EXCEPT !.notified = Append(@, notification)]
       IN IF notification.settled = "rejected"
          THEN catches(p, locals, "notifications")
          ELSE IF exec[p].result.success
          THEN sig' = [sig EXCEPT ![p] = [locals EXCEPT !.pc = "store"]]
          ELSE returns(p, locals, FALSE)

ExecuteTradeResolves ==
  /\ safetyStatus' = NoStatus
  /\ \E p \in Procs : executeTradeResolves(p)
  /\ UNCHANGED <<unitVars, smVars, now, nUpdates, execVars, riskManager, isRunning, accountInfo,
                 openPositions, exchPositions, trades, nSignals>>

\* database.storeTrade: the row is inserted, or the call rejects (a row with
\* that id exists, any other database error) and processSignal logs the
\* error and returns false
storeTrade(p) ==
  /\ sig[p].pc = "store"
  /\ LET trade == tradeRecord(sig[p].signal, exec[p].result, exec[p].request)
         insertable == \A i \in 1..Len(trades) : trades[i].id # trade.id
     IN \E stored \in (IF insertable THEN BOOLEAN ELSE {FALSE}) :
          IF stored
          THEN /\ trades' = Append(trades, trade)
               /\ sig' = [sig EXCEPT ![p].pc = "mark"]
          ELSE /\ catches(p, sig[p], "database")
               /\ UNCHANGED trades

StoreTrade ==
  /\ safetyStatus' = NoStatus
  /\ \E p \in Procs : storeTrade(p)
  /\ UNCHANGED <<unitVars, smVars, now, nUpdates, execVars, riskManager, isRunning, accountInfo,
                 openPositions, exchPositions, nSignals>>

\* database.markSignalProcessed: processSignal returns true, or false when
\* the call rejects
markSignalProcessed(p) ==
  /\ sig[p].pc = "mark"
  /\ \E marked \in BOOLEAN :
       IF marked THEN returns(p, sig[p], TRUE)
       ELSE catches(p, sig[p], "database")

MarkSignalProcessed ==
  /\ safetyStatus' = NoStatus
  /\ \E p \in Procs : markSignalProcessed(p)
  /\ UNCHANGED <<unitVars, smVars, now, nUpdates, execVars, riskManager, isRunning, accountInfo,
                 openPositions, exchPositions, trades, nSignals>>

\* positions of the account are closed on the exchange at a loss, between
\* two processSignal calls: no code of the engine runs
DailyLosses == {-600}
PositionsCloseAtLoss ==
  /\ safetyStatus' = NoStatus
  /\ isRunning
  /\ \A p \in Procs : sig[p].pc = "idle"
  /\ realizedPnL = 0
  /\ \E pnl \in DailyLosses : realizedPnL' = realizedPnL + pnl
  /\ UNCHANGED <<smVars, now, nUpdates, execVars, engineVars, riskVars,
                 statusCall, clientVars, pureVars>>

\* getStatus: getRiskMetrics on the balance ('0' for a null accountInfo), then
\* checkSafety on the engine's accountInfo and openPositions with no recent
\* trade; past the emergency stop and the cooldown, reading the balance of a
\* null accountInfo throws
GetStatus ==
  LET accountBalance == IF accountInfo.isNull THEN 0 ELSE accountInfo.availableBalance
      riskMetrics == getRiskMetrics(riskManager, accountBalance)
      returnsEarly == \/ emergencyStopCheck
                      \/ circuitBreaker.isActive /\ inCooldown(circuitBreaker)
  IN /\ riskManager' = riskMetrics.rm
     /\ IF accountInfo.isNull /\ ~returnsEarly
        THEN /\ circuitBreaker' =
                  IF circuitBreaker.isActive /\ circuitBreaker.autoReset
                  THEN resetBreaker(circuitBreaker) ELSE circuitBreaker
             /\ safetyStatus' = NoStatus
             /\ UNCHANGED <<emergencyStop, consecutiveLosses, dailyLoss, lastResetTime>>
        ELSE checkSafety(accountInfo, openPositions, riskMetrics.metrics, <<>>)
     /\ UNCHANGED <<unitVars, now, nUpdates, execVars, isRunning, accountInfo,
                    openPositions, exchPositions, trades, sig, nSignals>>

\* the caller takes the result of its processSignal call
SignalReturns ==
  /\ safetyStatus' = NoStatus
  /\ \E p \in Procs :
       /\ sig[p].pc = "returned"
       /\ sig' = [sig EXCEPT ![p] = IdleSignal]
       /\ exec' = [exec EXCEPT ![p] = IdleExec]
  /\ UNCHANGED <<unitVars, smVars, now, nUpdates, activeOrders, orderHistory, nextClientOrderId,
                 nExecCalls, riskManager, isRunning, accountInfo, openPositions,
                 exchPositions, trades, nSignals>>

-----------------------------------------------------------------------------
(***************************************************************************)
(* TradingDatabase operations on the trades table of an initialized        *)
(* database.  A column that a row does not have is NULL.                   *)
(***************************************************************************)
TradeIds == {1, 2}

\* storeTrade: INSERT INTO trades; the call rejects on a database error, as
\* it does for an id the table holds already (id is the primary key)
StoreAnyTrade ==
  /\ safetyStatus' = NoStatus
  /\ \E id \in TradeIds, signal \in SignalInputs(1), request \in ExecRequests,
        stored \in BOOLEAN :
       LET trade == tradeRecord(signal,
                                [orderId |-> id, executedQuantity |-> 2000,
                                 executedPrice |-> request.currentPrice],
                                request)
       IN trades' = IF stored /\ \A i \in 1..Len(trades) : trades[i].id # id
                    THEN Append(trades, trade) ELSE trades
  /\ UNCHANGED <<now, outsideDb>>

\* UPDATE trades SET exit_price, pnl, fees, status = 'CLOSED', exit_time
\* WHERE id = tradeId
updatedTradeExit(rows, tradeId, exitPrice, pnl, fees, exitTime) ==
  LET exit == [exitPrice |-> exitPrice, pnl |-> pnl, fees |-> fees,
               status |-> "CLOSED", exitTime |-> exitTime]
      set(row) == [c \in DOMAIN row \cup DOMAIN exit |->
                     IF c \in DOMAIN exit THEN exit[c] ELSE row[c]]
  IN [i \in 1..Len(rows) |->
        IF rows[i].id = tradeId THEN set(rows[i]) ELSE rows[i]]

\* updateTradeExit; the call rejects on a database error
UpdateTradeExit ==
  /\ safetyStatus' = NoStatus
  /\ \E tradeId \in TradeIds, exitPrice \in {49000, 51000}, pnl \in {-2, 2},
        updated \in BOOLEAN :
       trades' = IF updated
                 THEN updatedTradeExit(trades, tradeId, exitPrice, pnl, 1, now)
                 ELSE trades
  /\ UNCHANGED <<now, outsideDb>>

-----------------------------------------------------------------------------
(***************************************************************************)
(* Signal validator.  Confidence and penalties are in hundredths.  A       *)
(* payload is an object with the keys of the schema, those of its set      *)
(* absent left out, or no object at all; an error of Joi is the key and     *)
(* the rule it names.                                                      *)
(***************************************************************************)
SchemaKeys == <<"timestamp", "symbol", "action", "signal_strength", "price",
                "mfi_value", "rsi_value", "timeframe", "strategy", "secret">>

\* webhookPayloadSchema.validate(payload, {abortEarly: false}): the details
\* of the error, every rule a value breaks and required() alone for an
\* absent key; none when the payload passes (undefined passes an object
\* schema that is not required)
schemaErrors(payload) ==
  LET rule(name, broken) == IF broken THEN <<name>> ELSE <<>>
      range(lowest, highest, v) ==
        rule("number.min", v < lowest) \o rule("number.max", v > highest)
      brokenRules(key) ==
        IF key \in payload.absent THEN <<"any.required">>
        ELSE CASE key = "timestamp" ->
                    rule("string.isoDate", payload.timestamp = "not a date")
               [] key = "symbol" ->
                    rule("string.min", Len(payload.symbol) < 3)
                    \o rule("string.max", Len(payload.symbol) > 20)
               [] key = "action" ->
                    rule("any.only",
                         payload.action \notin {"BUY", "SELL", "CLOSE"})
               [] key = "signal_strength" ->
                    rule("any.only", payload.signal_strength
                                       \notin {"STRONG", "MEDIUM", "WEAK"})
               [] key = "price" -> rule("number.positive", payload.price <= 0)
               [] key = "mfi_value" -> range(0, 100, payload.mfi_value)
               [] key = "rsi_value" -> range(0, 100, payload.rsi_value)
               [] OTHER -> <<>>
      RECURSIVE errorsFrom(_)
      errorsFrom(k) ==
        IF k > Len(SchemaKeys) THEN <<>>
        ELSE [i \in 1..Len(brokenRules(SchemaKeys[k])) |->
                [key |-> SchemaKeys[k], rule |-> brokenRules(SchemaKeys[k])[i]]]
             \o errorsFrom(k + 1)
  IN CASE payload.kind = "undefined" -> <<>>
       [] payload.kind = "string" ->
            <<[key |-> "value", rule |-> "object.base"]>>
       [] OTHER -> errorsFrom(1)

signalLogicRules(payload) ==
  LET mfi == payload.mfi_value
      rsi == payload.rsi_value
      \* minutes between the timestamp and the time of the validation
      age == IF payload.timestamp = "10 minutes ago" THEN 10 ELSE 0
      extremeOversold == mfi < 20 /\ rsi < 30
      extremeOverbought == mfi > 80 /\ rsi > 70
      moderateOversold == mfi < 40 /\ rsi < 40
      moderateOverbought == mfi > 60 /\ rsi > 60
  IN [mfiRsiCorrelation |->
        CASE payload.action = "BUY" -> mfi < 50 /\ rsi < 50
          [] payload.action = "SELL" -> mfi > 50 /\ rsi > 50
          [] OTHER -> TRUE,
      signalStrengthLogic |->
        CASE payload.signal_strength = "STRONG" ->
               extremeOversold \/ extremeOverbought
          [] payload.signal_strength = "MEDIUM" ->
               moderateOversold \/ moderateOverbought
          [] payload.signal_strength = "WEAK" ->
               ~extremeOversold /\ ~extremeOverbought /\ ~moderateOversold
               /\ ~moderateOverbought
          [] OTHER -> FALSE,
      \* includes('BTC') and includes('ETH'), over the symbols of the payloads
      priceValidation |->
        IF payload.symbol = "BTCUSDT"
        THEN payload.price > 1000 /\ payload.price < 200000
        ELSE IF payload.symbol = "ETHUSDT"
        THEN payload.price > 10 /\ payload.price < 10000
        ELSE payload.price > 0 /\ payload.price < 100000,
      timestampValidation |->
        age <= 5 /\ age >= -1]

\* the penalty of a failed check
impact_none(warning) == 0
impact(warning) ==
  CASE warning = "MFI-RSI Correlation check failed" -> 20
    [] warning = "Signal Strength Logic check failed" -> 15
    [] warning = "Price Validation check failed" -> 10
    [] warning = "Timestamp Validation check failed" -> 5
    [] warning \in {"Buy signal in overbought conditions",
                    "Sell signal in oversold conditions"} -> 10
    [] OTHER -> 0

\* the schema has failed
rejected_unscored(errors) ==
  [isValid |-> FALSE, errors |-> errors, warnings |-> <<>>, confidence |-> 100]
rejected(errors) ==
  [isValid |-> FALSE, errors |-> errors, warnings |-> <<>>, confidence |-> 0]

validateWebhookPayload(payload) ==
  LET warn(text, failed) == IF failed THEN <<text>> ELSE <<>>
      rules == signalLogicRules(payload)
      mfi == payload.mfi_value
      rsi == payload.rsi_value
      warnings ==
        warn("MFI-RSI Correlation check failed", ~rules.mfiRsiCorrelation)
        \o warn("Signal Strength Logic check failed", ~rules.signalStrengthLogic)
        \o warn("Price Validation check failed", ~rules.priceValidation)
        \o warn("Timestamp Validation check failed", ~rules.timestampValidation)
        \o warn("Extreme MFI value detected", mfi > 95 \/ mfi < 5)
        \o warn("Extreme RSI value detected", rsi > 95 \/ rsi < 5)
        \o warn("Buy signal in overbought conditions",
                payload.action = "BUY" /\ (mfi > 70 \/ rsi > 70))
        \o warn("Sell signal in oversold conditions",
                payload.action = "SELL" /\ (mfi < 30 \/ rsi < 30))
      RECURSIVE penalized(_, _)
      penalized(score, issued) ==
        IF issued = <<>> THEN score
        ELSE penalized(score - impact(Head(issued)), Tail(issued))
      confidence == penalized(100, warnings)
      atMostOne == IF confidence < 100 THEN confidence ELSE 100
  IN IF schemaErrors(payload) # <<>> THEN rejected(schemaErrors(payload))
     ELSE IF payload.kind = "undefined"
     \* reading a property of undefined throws before a rule has run
     THEN [isValid |-> FALSE,
           errors |-> <<[key |-> "", rule |-> "Validation error"]>>,
           warnings |-> <<>>, confidence |-> 0]
     ELSE [isValid |-> TRUE, errors |-> <<>>, warnings |-> warnings,
           confidence |-> IF atMostOne > 0 THEN atMostOne ELSE 0]

\* payloads a caller may pass
WebhookPayloads ==
  [kind : {"object"}, absent : {{}, {"secret"}, {"price", "action"}},
   timestamp : {"now", "10 minutes ago", "not a date"},
   symbol : {"BTCUSDT", "XRPUSDT", "AB"},
   action : {"BUY", "SELL", "CLOSE", "HOLD"},
   signal_strength : {"STRONG", "MEDIUM", "WEAK"},
   price : {-5, 500, 50000}, mfi_value : {3, 35, 75, 101},
   rsi_value : {25, 65, 97}]
  \cup [kind : {"undefined", "string"}, absent : {{}}, timestamp : {"now"},
        symbol : {"BTCUSDT"}, action : {"BUY"}, signal_strength : {"STRONG"},
        price : {500}, mfi_value : {35}, rsi_value : {25}]

NoValidation == [called |-> FALSE, payload |-> <<>>, result |-> rejected(<<>>)]

\* the function keeps no state: one call shows all a behaviour can show
ValidateWebhookPayload ==
  /\ ~validation.called
  /\ \E payload \in WebhookPayloads :
       validation' = [called |-> TRUE, payload |-> payload,
                      result |-> validateWebhookPayload(payload)]
  /\ UNCHANGED outsideValidator

\* WebhookServer.calculateConfidence, in hundredths
calculateConfidence(payload) ==
  LET mfi == payload.mfi_value
      rsi == payload.rsi_value
      base == 50
      byStrength ==
        CASE payload.signal_strength = "STRONG" -> base + 30
          [] payload.signal_strength = "MEDIUM" -> base + 10
          [] payload.signal_strength = "WEAK" -> base - 10
          [] OTHER -> base
      byExtremes ==
        IF \/ mfi < 20 /\ rsi < 30 /\ payload.action = "BUY"
           \/ mfi > 80 /\ rsi > 70 /\ payload.action = "SELL"
        THEN byStrength + 20 ELSE byStrength
      byConflict ==
        IF (mfi > 50 /\ rsi < 50) \/ (mfi < 50 /\ rsi > 50)
        THEN byExtremes - 10 ELSE byExtremes
      atMostOne == IF byConflict < 100 THEN byConflict ELSE 100
  IN IF atMostOne > 0 THEN atMostOne ELSE 0

\* WebhookServer.processSignal: the ProcessedSignal built from a payload
processedSignal(payload) ==
  [id |-> 1, symbol |-> payload.symbol, action |-> payload.action,
   confidence |-> calculateConfidence(payload),
   strength |-> payload.signal_strength]

\* POST /webhook/tradingview: validateWebhook, then processSignal for a
\* request that passed; trusted stands for the IP whitelist and the secret
PostTradingViewWebhook ==
  /\ ~validation.called
  /\ \E payload \in WebhookPayloads, trusted \in BOOLEAN :
       LET payloadValidation == validateWebhookPayload(payload)
           accepted == payloadValidation.isValid /\ trusted
       IN validation' = [called |-> TRUE, payload |-> payload,
                         result |-> payloadValidation,
                         accepted |-> accepted,
                         signal |-> IF accepted THEN processedSignal(payload)
                                    ELSE NoSignal]
  /\ UNCHANGED outsideValidator

-----------------------------------------------------------------------------
(***************************************************************************)
(* BingXClient: the request queue.  makeRequest and the stretches of       *)
(* processQueue between two awaits run without interruption.               *)
(***************************************************************************)

\* processQueue returns at once when a loop is at work already
queueBusy_never(processing) == FALSE
queueBusy(processing) == processing

\* a loop of processQueue takes the next request function off the queue and
\* calls it, which hands the request to axios
takeNext(queue, loops, i) ==
  /\ rateLimitQueue' = Tail(queue)
  /\ sent' = Append(sent, Head(queue))
  /\ queueLoops' = [k \in DOMAIN loops \cup {i} |->
                      IF k = i THEN [pc |-> "request", request |-> Head(queue)]
                      ELSE loops[k]]

\* makeRequest: the request function is pushed and processQueue called
MakeRequest ==
  /\ Len(promises) < MaxRequests
  /\ promises' = Append(promises, "PENDING")
  /\ LET queue == Append(rateLimitQueue, Len(promises) + 1)
     IN IF queueBusy(isProcessingQueue) \/ queue = <<>>
        THEN /\ rateLimitQueue' = queue
             /\ UNCHANGED <<isProcessingQueue, queueLoops, sent>>
        ELSE /\ isProcessingQueue' = TRUE
             /\ takeNext(queue, queueLoops, Len(queueLoops) + 1)
  /\ UNCHANGED outsideClient

\* axios answers or fails (it has a timeout): the request function resolves
\* or rejects the caller's promise, and the loop starts its 100 ms delay
RequestSettles ==
  /\ \E i \in DOMAIN queueLoops, outcome \in {"RESOLVED", "REJECTED"} :
       /\ queueLoops[i].pc = "request"
       /\ promises' = [promises EXCEPT ![queueLoops[i].request] = outcome]
       /\ queueLoops' = [queueLoops EXCEPT ![i] = [pc |-> "delay", request |-> 0]]
  /\ UNCHANGED <<rateLimitQueue, isProcessingQueue, sent, outsideClient>>

\* the delay is over: the loop goes on with the next request, or ends
DelayElapses ==
  /\ \E i \in DOMAIN queueLoops :
       /\ queueLoops[i].pc = "delay"
       /\ IF Len(rateLimitQueue) > 0
          THEN /\ takeNext(rateLimitQueue, queueLoops, i)
               /\ UNCHANGED isProcessingQueue
          ELSE /\ isProcessingQueue' = FALSE
               /\ queueLoops' = SubSeq(queueLoops, 1, i - 1)
                                \o SubSeq(queueLoops, i + 1, Len(queueLoops))
               /\ UNCHANGED <<rateLimitQueue, sent>>
  /\ UNCHANGED <<promises, outsideClient>>

-----------------------------------------------------------------------------
(***************************************************************************)
(* RiskManager operations                                                  *)
(***************************************************************************)
NoRiskCall == [called |-> FALSE, signal |-> NoSignal, currentPrice |-> 0,
               accountBalance |-> 0, openPositions |-> <<>>, volatility |-> 0,
               useVolatilityStops |-> FALSE, dailyPnL |-> 0,
               result |-> NoRiskCheck]

RiskPnLInputs == {-300, -100, 200}

UpdateRiskMetrics ==
  /\ nRiskUpdates < MaxRiskUpdates
  /\ \E pnl \in RiskPnLInputs :
       riskManager' = updatedRiskMetrics(riskManager, pnl)
  /\ nRiskUpdates' = nRiskUpdates + 1
  /\ UNCHANGED <<riskCall, outsideRisk>>

resetDailyMetrics ==
  /\ riskManager' = [riskManager EXCEPT !.dailyPnL = 0]
  /\ UNCHANGED <<riskCall, nRiskUpdates, outsideRisk>>

\* getRiskMetrics(accountBalance) of any caller: calculateDrawdown moves the
\* peak
GetRiskMetrics ==
  /\ \E accountBalance \in {50, 10000} :
       riskManager' = getRiskMetrics(riskManager, accountBalance).rm
  /\ UNCHANGED <<riskCall, nRiskUpdates, outsideRisk>>

CheckTradeRisk ==
  /\ \E signal \in SignalInputs(1) \cup SignalInputs(2),
        currentPrice \in {600, 50000}, accountBalance \in {50, 10000},
        positions \in {<<>>, <<Pos(1, 100)>>}, volatility \in {0, 60},
        useVolatilityStops \in BOOLEAN :
       LET risk == checkTradeRisk(riskManager, signal, currentPrice,
                                  accountBalance, positions, volatility,
                                  useVolatilityStops)
       IN \* the flag is read with a volatility only; a small account
          \* trades the cheap symbol
          /\ volatility # 0 \/ ~useVolatilityStops
          /\ currentPrice = 600 <=> accountBalance = 50
          /\ riskManager' = risk.rm
          /\ riskCall' = [called |-> TRUE, signal |-> signal,
                          currentPrice |-> currentPrice,
                          accountBalance |-> accountBalance,
                          openPositions |-> positions,
                          volatility |-> volatility,
                          useVolatilityStops |-> useVolatilityStops,
                          dailyPnL |-> riskManager.dailyPnL,
                          result |-> risk.result]
  /\ UNCHANGED <<nRiskUpdates, outsideRisk>>

-----------------------------------------------------------------------------
Init ==
  /\ emergencyStop = FALSE
  /\ circuitBreaker = InitialCircuitBreaker
  /\ consecutiveLosses = 0
  /\ dailyLoss = 0
  /\ lastResetTime = 0
  /\ now = 0
  /\ nUpdates = 0
  /\ safetyStatus = NoStatus
  /\ activeOrders = <<>>
  /\ orderHistory = <<>>
  /\ exec = [p \in Procs |-> IdleExec]
  /\ nextClientOrderId = 1
  /\ nExecCalls = 0
  /\ riskManager = InitialRiskManager
  /\ isRunning = FALSE
  /\ accountInfo = NoAccountInfo
  /\ openPositions = <<>>
  /\ exchPositions = InitialExchangePositions
  /\ trades = <<>>
  /\ sig = [p \in Procs |-> IdleSignal]
  /\ nSignals = 0
  /\ riskCall = NoRiskCall
  /\ nRiskUpdates = 0
  /\ statusCall = <<>>
  /\ rateLimitQueue = <<>>
  /\ isProcessingQueue = FALSE
  /\ queueLoops = <<>>
  /\ sent = <<>>
  /\ promises = <<>>
  /\ sizing = NoSizing
  /\ validation = NoValidation
  /\ realizedPnL = 0

NextSafety ==
  \/ CheckSafety
  \/ TriggerCircuitBreaker
  \/ resetCircuitBreaker
  \/ activateEmergencyStop
  \/ deactivateEmergencyStop
  \/ UpdateDailyLoss
  \/ Tick

SpecSafety == Init /\ [][NextSafety]_vars

NextExec ==
  \/ ExecuteTrade
  \/ PlaceOrderWithRetry
  \/ PlaceStopLossOrder
  \/ PlaceTakeProfitOrder
  \/ ExecuteTradeReturns
  \/ CancelOrder

SpecExec == Init /\ [][NextExec]_vars

\* the TradeExecutionEngine with the upkeep of its order table
\* an updateOrderStatus call made when no other awaits its answer
UpdateOrderStatusInTurn == statusCall = <<>> /\ UpdateOrderStatus

NextOrders ==
  \/ ExecuteTrade
  \/ PlaceOrderWithRetry
  \/ PlaceStopLossOrder
  \/ PlaceTakeProfitOrder
  \/ ExecuteTradeReturns
  \/ CancelOrder
  \/ UpdateOrderStatusInTurn
  \/ UpdateOrderStatusResolves

SpecOrders == Init /\ [][NextOrders]_vars

\* the exchange accepts every order, and it never reports as FILLED an order
\* it has cancelled
ordersAccepted ==
  \A p \in Procs : \A i \in 1..Len(exec[p].calls) : exec[p].calls[i].ok
cancelledStays ==
  \A i \in 1..Len(orderHistory) :
     orderHistory[i].status = "CANCELLED" => orderHistory'[i].status # "FILLED"

AcceptedEntryOrder == PlaceOrderWithRetry /\ ordersAccepted'
AcceptedStopLossOrder == PlaceStopLossOrder /\ ordersAccepted'
AcceptedTakeProfitOrder == PlaceTakeProfitOrder /\ ordersAccepted'
ConsistentStatusResolves == UpdateOrderStatusResolves /\ cancelledStays

\* updateOrderStatus and cancelOrder calls overlapping at their awaits, on
\* the orders of executeTrade calls the exchange accepts
NextPolling ==
  \/ ExecuteTrade
  \/ AcceptedEntryOrder
  \/ AcceptedStopLossOrder
  \/ AcceptedTakeProfitOrder
  \/ ExecuteTradeReturns
  \/ CancelOrder
  \/ UpdateOrderStatus
  \/ ConsistentStatusResolves

SpecPolling == Init /\ [][NextPolling]_vars

NextRisk ==
  \/ UpdateRiskMetrics
  \/ resetDailyMetrics
  \/ CheckTradeRisk
  \/ GetRiskMetrics

SpecRisk == Init /\ [][NextRisk]_vars

NextDb ==
  \/ StoreAnyTrade
  \/ UpdateTradeExit
  \/ Tick

SpecDb == Init /\ [][NextDb]_vars

NextSizer ==
  \/ CalculatePositionSize

SpecSizer == Init /\ [][NextSizer]_vars

NextValidator ==
  \/ ValidateWebhookPayload

SpecValidator == Init /\ [][NextValidator]_vars

NextWebhook ==
  \/ PostTradingViewWebhook

SpecWebhook == Init /\ [][NextWebhook]_vars

NextClient ==
  \/ MakeRequest
  \/ RequestSettles
  \/ DelayElapses

\* axios settles every request (it has a timeout) and every timer fires
SpecClient ==
  Init /\ [][NextClient]_vars /\ WF_vars(RequestSettles) /\ WF_vars(DelayElapses)

\* the notification channels deliver and the exchange accepts the bracket
\* orders
calm ==
  \A p \in Procs :
    /\ \A i \in 1..Len(sig[p].notified) : sig[p].notified[i].delivered
    /\ \A i \in 1..Len(exec[p].calls) :
         exec[p].calls[i].order = "ENTRY" \/ exec[p].calls[i].ok

CalmUpdatePositions == UpdatePositions /\ calm'
CalmDecide == Decide /\ calm'
CalmStopLossOrder == StopLossOrder /\ calm'
CalmTakeProfitOrder == TakeProfitOrder /\ calm'
CalmExecuteTradeResolves == ExecuteTradeResolves /\ calm'

\* processSignal calls overlapping at their awaits, in calm
Next ==
  \/ Start
  \/ MonitorAccountInfo
  \/ MonitorPositions
  \/ ProcessSignal
  \/ UpdateAccountInfo
  \/ CalmUpdatePositions
  \/ GetCurrentPrice
  \/ GetTradeHistoryFails
  \/ CalmDecide
  \/ EntryOrder
  \/ CalmStopLossOrder
  \/ CalmTakeProfitOrder
  \/ CalmExecuteTradeResolves
  \/ StoreTrade
  \/ MarkSignalProcessed
  \/ SignalReturns

Spec == Init /\ [][Next]_vars

\* a processSignal call made when no other is in progress
ProcessSignalInTurn ==
  /\ \A p \in Procs : sig[p].pc = "idle"
  /\ ProcessSignal

\* processSignal calls one after the other, any collaborator failing, on a
\* day of losses
NextFaults ==
  \/ Start
  \/ MonitorAccountInfo
  \/ MonitorPositions
  \/ ProcessSignalInTurn
  \/ UpdateAccountInfo
  \/ UpdatePositions
  \/ GetCurrentPrice
  \/ GetTradeHistoryFails
  \/ Decide
  \/ EntryOrder
  \/ StopLossOrder
  \/ TakeProfitOrder
  \/ ExecuteTradeResolves
  \/ StoreTrade
  \/ MarkSignalProcessed
  \/ SignalReturns
  \/ PositionsCloseAtLoss

SpecFaults == Init /\ [][NextFaults]_vars

\* the trades table as the bot's runs fill it: a trade is stored once, with
\* the id of a later order than the ones before it and the strategy that sized
\* it, and an open trade is closed once, at a loss below its entry price
\* and at a profit above it
tradeOpened ==
  /\ Len(trades') = Len(trades) + 1
  /\ trades'[Len(trades')].strategy = "COMBINED_STRATEGY"
  /\ \A i \in 1..Len(trades) : trades[i].id < trades'[Len(trades')].id
tradeClosed ==
  \E i \in 1..Len(trades) :
     /\ trades[i].status = "OPEN"
     /\ trades'[i].status = "CLOSED"
     /\ trades'[i].pnl < 0 <=> trades'[i].exitPrice < trades[i].entryPrice

TradeOpened == StoreAnyTrade /\ tradeOpened
TradeClosed == UpdateTradeExit /\ tradeClosed
MinutesPass == Tick /\ now' = now + TickMinutes

\* processSignal calls one after the other, in calm, over a trades table
\* in which trades are stored and closed as time passes
NextHistory ==
  \/ Start
  \/ MonitorAccountInfo
  \/ MonitorPositions
  \/ ProcessSignalInTurn
  \/ UpdateAccountInfo
  \/ CalmUpdatePositions
  \/ GetCurrentPrice
  \/ GetTradeHistoryFails
  \/ CalmDecide
  \/ EntryOrder
  \/ CalmStopLossOrder
  \/ CalmTakeProfitOrder
  \/ CalmExecuteTradeResolves
  \/ StoreTrade
  \/ MarkSignalProcessed
  \/ SignalReturns
  \/ TradeOpened
  \/ TradeClosed
  \/ MinutesPass

SpecHistory == Init /\ [][NextHistory]_vars

-----------------------------------------------------------------------------
(***************************************************************************)
(* Properties of the SafetyManager (checked under SpecSafety)              *)
(***************************************************************************)

\* one checkSafety call of SpecSafety, as a step
CheckSafetyStep(a, p, m, t) ==
  checkSafety(a, p, m, t) /\ UNCHANGED <<now, nUpdates, outsideSafety>>

CriticalWarnings == {"Balance below minimum threshold",
                     "Daily loss limit exceeded", "Maximum drawdown exceeded"}
HighWarnings == {"Maximum open positions reached",
                 "Maximum position size exceeded",
                 "Maximum consecutive losses reached",
                 "Maximum leverage exceeded"}
TrippingWarnings == {"Daily loss limit exceeded", "Maximum drawdown exceeded",
                     "Maximum consecutive losses reached"}

Warned(status, ws) == \E i \in 1..Len(status.warnings) : status.warnings[i] \in ws

\* a step is a checkSafety call exactly when it leaves a status behind: every
\* other operation of SpecSafety sets safetyStatus to NoStatus
checkSafetyReturned == safetyStatus' # NoStatus

\* C1: while the emergency stop is on, every step other than
\* deactivateEmergencyStop (checkSafety, resetCircuitBreaker,
\* triggerCircuitBreaker, updateDailyLoss, the passing of time) leaves it on,
\* and every checkSafety call returns isTradingEnabled = false,
\* emergencyStopActive = true and riskLevel = CRITICAL, whatever its inputs
\* and whatever the circuit breaker's state.
C1_EmergencyStopLatch ==
  [][ (emergencyStop /\ ~deactivateEmergencyStop) =>
        /\ emergencyStop'
        /\ (checkSafetyReturned =>
              /\ ~safetyStatus'.isTradingEnabled
              /\ safetyStatus'.emergencyStopActive
              /\ safetyStatus'.riskLevel = "CRITICAL") ]_vars

\* C1 witness: a checkSafety call has just returned with the emergency stop
\* on, the breaker active past its cooldown and the daily loss limit breached
C1_Witness ==
  /\ emergencyStop
  /\ safetyStatus # NoStatus
  /\ safetyStatus.riskLevel = "CRITICAL"
  /\ circuitBreaker.isActive
  /\ now - circuitBreaker.triggerTime >= circuitBreaker.cooldownPeriod
  /\ dailyLoss < -maxDailyLoss

\* C3 (as claimed): when the daily PnL accumulated by updateDailyLoss is below
\* -(accountBalance * maxDailyLoss%), a checkSafety call made with the
\* emergency stop off and the breaker not active returns isTradingEnabled =
\* false, riskLevel = CRITICAL and circuitBreakerActive = true, whatever the
\* positions, metrics and trades passed.
C3_DailyLossTripsBreaker ==
  [][ \A a \in AccountInputs, p \in PositionInputs, m \in MetricInputs,
         t \in TradeInputs :
        ( /\ CheckSafetyStep(a, p, m, t)
          /\ ~emergencyStop
          /\ ~circuitBreaker.isActive
          /\ dailyLoss * 100 < -(a.availableBalance * maxDailyLoss) )
        => /\ ~safetyStatus'.isTradingEnabled
           /\ safetyStatus'.riskLevel = "CRITICAL"
           /\ safetyStatus'.circuitBreakerActive ]_vars

C10_WorstRiskLevelWins ==
  safetyStatus # NoStatus =>
    /\ Warned(safetyStatus, CriticalWarnings)
         => safetyStatus.riskLevel = "CRITICAL"
    /\ Warned(safetyStatus, HighWarnings)
         => LevelRank(safetyStatus.riskLevel) >= LevelRank("HIGH")

updateDailyLossCalled == nUpdates' = nUpdates + 1

\* C28: an updateDailyLoss(pnl) call made on the calendar day of the last
\* reset adds pnl to the daily loss; made on another calendar day it sets the
\* daily loss to pnl alone and consecutiveLosses to 0.
C28_DailyLossPerDay ==
  [][ \A pnl \in PnLInputs :
        (updateDailyLossCalled /\ updateDailyLoss(pnl))
        => IF DayOf(lastResetTime) = DayOf(now)
           THEN dailyLoss' = dailyLoss + pnl
           ELSE dailyLoss' = pnl /\ consecutiveLosses' = 0 ]_vars

\* C28 witness: two updateDailyLoss calls were made, the second on a later
\* day than the first, and the daily loss is the second pnl alone
C28_Witness ==
  /\ nUpdates = 2
  /\ dailyLoss = -5
  /\ consecutiveLosses = 0
  /\ lastResetTime = now
  /\ DayOf(now) >= 1

\* C30: activateEmergencyStop and deactivateEmergencyStop leave the
\* breaker's active flag, trigger time and reason as they were;
\* triggerCircuitBreaker and resetCircuitBreaker, and every step other than
\* the two emergency-stop operations, leave the emergency-stop latch as it
\* was; and a checkSafety call made while the emergency stop is on changes no
\* field of the SafetyManager.
C30_EmergencyStopIndependent ==
  [][ /\ (activateEmergencyStop \/ deactivateEmergencyStop)
         => /\ circuitBreaker'.isActive = circuitBreaker.isActive
            /\ circuitBreaker'.triggerTime = circuitBreaker.triggerTime
            /\ circuitBreaker'.triggerReason = circuitBreaker.triggerReason
      /\ (TriggerCircuitBreaker \/ resetCircuitBreaker)
         => emergencyStop' = emergencyStop
      /\ emergencyStop' # emergencyStop
         => (activateEmergencyStop \/ deactivateEmergencyStop)
      /\ (checkSafetyReturned /\ emergencyStop)
         => UNCHANGED smVars ]_vars

\* C30 witness: a checkSafety call has just returned with the emergency stop
\* on while the breaker is active and losses are on the books
C30_Witness ==
  /\ emergencyStop
  /\ safetyStatus # NoStatus
  /\ safetyStatus.emergencyStopActive
  /\ ~safetyStatus.circuitBreakerActive
  /\ circuitBreaker.isActive
  /\ consecutiveLosses > 0
  /\ dailyLoss < 0

\* C34 (as claimed): a SafetyStatus checkSafety returns with
\* circuitBreakerActive = true has isTradingEnabled = false, whichever
\* condition tripped the breaker.
C34_BreakerActiveBlocksTrading ==
  (safetyStatus # NoStatus /\ safetyStatus.circuitBreakerActive)
  => ~safetyStatus.isTradingEnabled

\* C38: in every state the SafetyManager reaches, a checkSafety call made
\* with the daily loss past its limit (dailyLoss < -maxDailyLoss) or with a
\* max drawdown above its threshold returns isTradingEnabled = false,
\* whatever its other arguments: with the emergency stop on or off, inside
\* the cooldown, after it has elapsed and after resetCircuitBreaker.
C38_BreachKeepsTradingDisabled ==
  \A a \in AccountInputs, p \in PositionInputs, m \in MetricInputs,
     t \in TradeInputs :
    (dailyLoss < -maxDailyLoss \/ m.maxDrawdown > maxDrawdown)
    => ~checkSafetyResult(a, p, m, t).status.isTradingEnabled

\* C38 witness: the daily loss is past its limit, the cooldown of a breaker
\* tripped earlier has elapsed, and a checkSafety call made then has just
\* returned with trading disabled and the breaker tripped anew
C38_Witness ==
  /\ dailyLoss < -maxDailyLoss
  /\ now >= cooldownMinutes
  /\ safetyStatus # NoStatus
  /\ ~safetyStatus.isTradingEnabled
  /\ Warned(safetyStatus, {"Daily loss limit exceeded"})
  /\ circuitBreaker.isActive
  /\ circuitBreaker.triggerTime = now

-----------------------------------------------------------------------------
(***************************************************************************)
(* Properties of the TradeExecutionEngine (checked under SpecExec)         *)
(***************************************************************************)

\* the number of entry attempts an executeTrade call has made
entryAttempts(e) == Len(SelectSeq(e.calls, LAMBDA c : c.order = "ENTRY"))

\* the request fails one of the two validations of executeTrade
rejectedRequest(request) ==
  ~request.riskCheck.shouldTrade \/ request.positionSize.quantity <= 0

\* C2: an executeTrade call made with riskCheck.shouldTrade = false or with
\* positionSize.quantity <= 0 returns at once with success = false, without
\* any call of the exchange client, and leaves the active-order table and the
\* order history as they were; when shouldTrade is false the error is "Risk
\* check failed: " followed by the risk warnings, which are also the
\* warnings of the result.
C2_NoExchangeCallWhenRejected ==
  [][ \A p \in Procs :
        LET e == exec'[p] IN
          /\ rejectedRequest(e.request) => e.calls = <<>>
          /\ (exec[p].pc = "idle" /\ e.pc # "idle" /\ rejectedRequest(e.request))
             => /\ e.pc = "done"
                /\ ~e.result.success
                /\ activeOrders' = activeOrders
                /\ orderHistory' = orderHistory
                /\ ~e.request.riskCheck.shouldTrade
                   => /\ e.result.error.text = "Risk check failed: "
                      /\ e.result.error.detail = e.request.riskCheck.warnings
                      /\ e.result.warnings = e.request.riskCheck.warnings ]_vars

\* C2 witness: a call with a failed risk check (and warnings to cite) has
\* returned while the active-order table holds an order
C2_Witness ==
  \E p \in Procs :
    /\ exec[p].pc = "done"
    /\ ~exec[p].request.riskCheck.shouldTrade
    /\ exec[p].request.riskCheck.warnings # <<>>
    /\ exec[p].result.error.detail = exec[p].request.riskCheck.warnings
    /\ DOMAIN activeOrders # {}

\* C6: within one executeTrade call the entry order is attempted at most
\* maxRetries times, the attempts come first and one after the other, and no
\* attempt follows a successful one; when the last attempt has failed the
\* call has returned after exactly maxRetries attempts with success = false
\* and the error message of that last attempt, has submitted no stop-loss or
\* take-profit order, and its order is neither in the active-order table nor
\* in the order history.
C6_BoundedRetries ==
  \A p \in Procs :
    LET e == exec[p]
        n == entryAttempts(e)
    IN /\ n <= maxRetries
       /\ \A i \in 1..Len(e.calls) : (e.calls[i].order = "ENTRY") <=> (i <= n)
       /\ \A i \in 1..(n - 1) : ~e.calls[i].ok
       /\ (n > 0 /\ ~e.calls[n].ok /\ e.pc # "entry")
          => /\ e.pc = "done"
             /\ n = maxRetries
             /\ Len(e.calls) = n
             /\ ~e.result.success
             /\ e.result.error.attempts = maxRetries
             /\ e.result.error.detail = <<e.calls[n].error>>
             /\ e.clientOrderId \notin DOMAIN activeOrders
             /\ \A k \in 1..Len(orderHistory) :
                  orderHistory[k].clientOrderId # e.clientOrderId
       /\ (n > 0 /\ ~e.calls[n].ok /\ e.pc = "entry") => n < maxRetries

\* C6 witness: a call has returned after maxRetries failed attempts, the last
\* of which failed with another error than the first
C6_Witness ==
  \E p \in Procs :
    /\ exec[p].pc = "done"
    /\ Len(exec[p].calls) = maxRetries
    /\ ~exec[p].calls[maxRetries].ok
    /\ exec[p].calls[1].error # exec[p].calls[maxRetries].error
    /\ ~exec[p].result.success

\* C7: once the entry order of an executeTrade call has succeeded, the call
\* submits the stop-loss order once, then the take-profit order once (whether
\* or not the stop-loss order was placed), and returns success = true with
\* one warning for each bracket order that failed, naming that order.
C7_BracketOrders ==
  \A p \in Procs :
    LET e == exec[p]
        n == entryAttempts(e)
    IN (n > 0 /\ e.calls[n].ok)
       => /\ e.pc \in {"stopLoss", "takeProfit", "done"}
          /\ e.pc = "stopLoss" => Len(e.calls) = n
          /\ e.pc = "takeProfit"
             => Len(e.calls) = n + 1 /\ e.calls[n + 1].order = "STOP_LOSS"
          /\ e.pc = "done"
             => /\ Len(e.calls) = n + 2
                /\ e.calls[n + 1].order = "STOP_LOSS"
                /\ e.calls[n + 2].order = "TAKE_PROFIT"
                /\ e.result.success
                /\ e.result.warnings =
                     (IF e.calls[n + 1].ok THEN <<>>
                      ELSE <<"Failed to place stop loss order">>)
                     \o (IF e.calls[n + 2].ok THEN <<>>
                         ELSE <<"Failed to place take profit order">>)

\* C7 witness: a call has returned success = true after a failed stop-loss
\* order and a failed take-profit order
C7_Witness ==
  \E p \in Procs :
    /\ exec[p].pc = "done"
    /\ exec[p].result.success
    /\ Len(exec[p].result.warnings) = 2
    /\ \E i \in 1..Len(exec[p].calls) :
         exec[p].calls[i].order = "TAKE_PROFIT" /\ ~exec[p].calls[i].ok

\* C12: an order is removed from the active-order table and appended to the
\* history list when it reaches a terminal status (FILLED, CANCELLED or
\* REJECTED): after any sequence of executeTrade, updateOrderStatus and
\* cancelOrder calls, no order of the active-order table has a terminal
\* status.  updateOrderStatus removes an order on FILLED only.
C12_NoTerminalActiveOrder ==
  \A id \in DOMAIN activeOrders :
     activeOrders[id].status \notin {"FILLED", "CANCELLED", "REJECTED"}

\* processSignal calls one after the other, any collaborator failing, for
\* BUY, SELL and CLOSE signals
NextClose == NextFaults \/ ProcessCloseSignal

SpecClose == Init /\ [][NextClose]_vars

(* The next property is checked under SpecClose.                           *)
\* C35 (as claimed): a CLOSE signal never causes a position-opening entry
\* order (one that is not reduce-only) to be submitted: the entry orders
\* sent to the exchange are those of BUY and SELL signals.
C35_CloseOpensNoPosition ==
  \A p \in Procs : \A i \in 1..Len(exec[p].calls) :
     (exec[p].calls[i].order = "ENTRY" /\ ~entryOrderRequest(exec[p]).reduceOnly)
        => exec[p].request.signal.action \in {"BUY", "SELL"}

\* processSignal calls one after the other, any collaborator failing, with
\* the operator activating the emergency stop at any moment
NextStop == NextFaults \/ activateEmergencyStop

SpecStop == Init /\ [][NextStop]_vars

(* The next property is checked under SpecStop.                            *)
\* the step submits an entry order of the executeTrade call of p: the first
\* attempt is made when executeTrade reaches its first await, a retry after
\* the delay that follows a failed attempt
entrySubmitted(p) ==
  \/ exec[p].pc = "idle" /\ exec'[p].pc = "entry"
  \/ /\ exec[p].pc = "entry"
     /\ exec[p].attempt >= 2
     /\ Len(exec'[p].calls) > Len(exec[p].calls)

\* C33 (as claimed): no entry order is submitted to the exchange at a moment
\* when the emergency-stop latch is on, the entry attempts and retries of a
\* processSignal call that passed its safety check before
\* activateEmergencyStop was called included.
C33_NoEntryOrderUnderEmergencyStop ==
  [][\A p \in Procs : entrySubmitted(p) => ~emergencyStop]_vars

\* processSignal calls over a history of closed trades, with getStatus calls
\* between their steps
NextStatus == NextHistory \/ GetStatus

SpecStatus == Init /\ [][NextStatus]_vars

(* The next property is checked under SpecStatus.                          *)
\* C37 (as claimed): getStatus is a pure query of the safety and risk state:
\* a call leaves the consecutive-loss count, the circuit breaker (active
\* flag, trigger time, reason) and peakBalance as they were.
C37_GetStatusIsPureQuery ==
  [][GetStatus => /\ consecutiveLosses' = consecutiveLosses
                  /\ circuitBreaker' = circuitBreaker
                  /\ riskManager'.peakBalance = riskManager.peakBalance]_vars

(* The next property is checked under SpecPolling.                         *)
\* C36 (as claimed): whatever the interleaving of updateOrderStatus and
\* cancelOrder calls on one client order id, an order is never twice in the
\* order history and never in the history and the active-order table at once.
C36_OrderHeldOnce ==
  /\ \A i, j \in 1..Len(orderHistory) :
        i # j => orderHistory[i].clientOrderId # orderHistory[j].clientOrderId
  /\ \A i \in 1..Len(orderHistory) :
        orderHistory[i].clientOrderId \notin DOMAIN activeOrders

-----------------------------------------------------------------------------
(***************************************************************************)
(* Properties of the RiskManager (checked under SpecRisk)                  *)
(***************************************************************************)

\* the daily PnL found by the last checkTradeRisk call was below
\* -(accountBalance x maxRiskPerTrade%)
dailyLossBreached ==
  /\ riskCall.called
  /\ riskCall.dailyPnL * 100 < -(riskCall.accountBalance * maxRiskPerTrade)

\* C11: whenever the daily PnL accumulated through updateRiskMetrics is below
\* -(accountBalance x maxRiskPerTrade%), checkTradeRisk returns
\* shouldTrade = false with riskLevel = CRITICAL, for any signal, open
\* positions and volatility.  The code lets the concentration and the
\* volatility check overwrite the level with HIGH.
C11_DailyLossBlocksCritical ==
  dailyLossBreached =>
    /\ ~riskCall.result.shouldTrade
    /\ riskCall.result.riskLevel = "CRITICAL"

\* C31: no checkTradeRisk, updateRiskMetrics, getRiskMetrics or
\* resetDailyMetrics call lowers peakBalance, so it is never reset either.
C31_PeakBalanceMonotonic ==
  [][riskManager'.peakBalance >= riskManager.peakBalance]_vars

\* C31 witness: updateRiskMetrics has raised the peak above every balance
\* observed, and resetDailyMetrics has cleared the daily PnL since
C31_Witness ==
  /\ riskManager.peakBalance > 10000
  /\ nRiskUpdates > 0
  /\ riskManager.dailyPnL = 0

\* a finite percentage between 0 and 100
isPercentage(x) == x # NaN /\ x # Infinity /\ x >= 0 /\ x <= 100

\* C40 (as claimed): after any sequence of updateRiskMetrics, checkTradeRisk
\* and getRiskMetrics calls, the maxDrawdown getRiskMetrics reports and the
\* currentDrawdown it computes for any balance are finite percentages
\* between 0 and 100, updateRiskMetrics calls made while peakBalance is still
\* 0 included.
C40_DrawdownsArePercentages ==
  /\ isPercentage(riskManager.maxDrawdown)
  /\ \A accountBalance \in {50, 10000} :
       isPercentage(calculateDrawdown(riskManager, accountBalance))

\* C21: with volatility-based stops disabled, checkTradeRisk for a BUY at
\* price P returns stopLossPrice = P x (1 - S/100) and takeProfitPrice =
\* P x (1 + T/100), S and T being the configured stop-loss and take-profit
\* percents, whatever volatility is passed.
C21_FixedPercentStops ==
  (riskCall.called /\ ~riskCall.useVolatilityStops
     /\ riskCall.signal.action = "BUY") =>
    /\ riskCall.result.stopLossPrice * 100 =
         riskCall.currentPrice * (100 - stopLossPercent)
    /\ riskCall.result.takeProfitPrice * 100 =
         riskCall.currentPrice * (100 + takeProfitPercent)

\* a BUY checked with a volatility known and its stops disabled
C21_Witness ==
  /\ riskCall.called
  /\ ~riskCall.useVolatilityStops
  /\ riskCall.signal.action = "BUY"
  /\ riskCall.volatility = 60
  /\ riskCall.currentPrice = 600
  /\ riskCall.result.stopLossPrice = 588
  /\ riskCall.result.takeProfitPrice = 624

-----------------------------------------------------------------------------
(***************************************************************************)
(* Properties of the TradingDatabase (checked under SpecDb)                *)
(***************************************************************************)

\* C13: a persisted Trade record is never mutated after it is CLOSED: once
\* its status is CLOSED, no later operation (in particular a second
\* updateTradeExit for the same id) changes its exit price, exit time, PnL,
\* fees or status.  The UPDATE of updateTradeExit matches rows of any status.
C13_ClosedTradeImmutable ==
  [][\A i \in 1..Len(trades) :
        trades[i].status = "CLOSED" =>
          /\ i <= Len(trades')
          /\ trades'[i] = trades[i]]_vars

-----------------------------------------------------------------------------
(***************************************************************************)
(* Properties of the BingXClient (checked under SpecClient)                *)
(***************************************************************************)

\* the requests axios has been handed and has not settled yet
inFlight == {i \in DOMAIN queueLoops : queueLoops[i].pc = "request"}

\* requests are sent in the order of their enqueuing, none is skipped or
\* sent twice, at most one is in flight, and a promise is settled only
\* after its request was sent
QueueInOrder ==
  /\ sent \o rateLimitQueue = [k \in 1..Len(promises) |-> k]
  /\ Cardinality(inFlight) <= 1
  /\ \A k \in 1..Len(promises) :
       promises[k] # "PENDING" =>
         /\ k <= Len(sent)
         /\ \A i \in inFlight : queueLoops[i].request # k

\* C14: the request queue preserves submission order and drops nothing: for
\* any interleaving of callers and any mix of request failures, requests are
\* sent in the order they were enqueued, at most one request is in flight at
\* a time, and every enqueued request is eventually sent and its caller's
\* promise settled.
C14_QueueOrderAndProgress ==
  /\ []QueueInOrder
  /\ \A k \in 1..MaxRequests :
       (Len(promises) >= k) ~> (Len(sent) >= k /\ promises[k] # "PENDING")

\* two requests wait in the queue behind the one in flight, after an earlier
\* request has failed
C14_Witness ==
  /\ Len(rateLimitQueue) >= 2
  /\ inFlight # {}
  /\ \E k \in 1..Len(promises) : promises[k] = "REJECTED"

-----------------------------------------------------------------------------
(***************************************************************************)
(* Properties of the PositionSizer (checked under SpecSizer)               *)
(***************************************************************************)

\* the last call was made with a valid price and balance
validSizing ==
  sizing.called /\ sizing.request.price > 0 /\ sizing.request.accountBalance > 0

\* the last call was made at or above the limit on open positions
atPositionLimit ==
  sizing.called /\ sizing.request.currentPositions >= maxOpenPositions

zeroWithWarning ==
  /\ ~sizing.threw
  /\ sizing.result.quantity = 0
  /\ sizing.result.warnings # <<>>

\* C15 (as claimed): calculatePositionSize with currentPositions at or above
\* maxOpenPositions always yields quantity = 0 and a non-empty warning list,
\* regardless of all other inputs (price, balance, confidence, signal
\* strength, volatility, maxRiskPerTrade).
C15_ZeroAtPositionLimit == atPositionLimit => zeroWithWarning

\* C15 (amended): for a request with price > 0 and accountBalance > 0,
\* calculatePositionSize with currentPositions at or above maxOpenPositions
\* returns quantity = 0 and a non-empty warning list whatever the confidence,
\* signal strength, volatility and maxRiskPerTrade are; with price <= 0 or
\* accountBalance <= 0 it throws the input error instead, the input being
\* validated before the position count is looked at.
C15_ZeroAtPositionLimitAmended ==
  /\ (atPositionLimit /\ validSizing) => zeroWithWarning
  /\ (atPositionLimit /\ ~validSizing) => sizing.threw

\* a call above the limit with every other input favourable to a trade
C15_Witness ==
  /\ validSizing
  /\ sizing.request.currentPositions > maxOpenPositions
  /\ sizing.request.confidence = 81
  /\ sizing.request.signalStrength = "STRONG"
  /\ sizing.request.accountBalance = 10000
  /\ sizing.result.strategy = "ZERO_POSITION"

\* C16: calculatePositionSize with price <= 0 or accountBalance <= 0 raises
\* the designated input error and never returns a numeric result, whatever
\* the other request fields are.
C16_InvalidInputThrows ==
  (sizing.called /\ ~validSizing) =>
    /\ sizing.threw
    /\ sizing.result = NoPositionSize
    /\ sizing.error =
         IF sizing.request.price <= 0
         THEN "Invalid price: must be greater than 0"
         ELSE "Invalid account balance: must be greater than 0"

\* a call with a valid price, a negative balance and the position limit
\* reached has thrown
C16_Witness ==
  /\ atPositionLimit
  /\ sizing.request.price > 0
  /\ sizing.request.accountBalance < 0
  /\ sizing.threw

\* the maximum risk amount of a request, in millionths of a dollar
maxRiskAmountOf(request) ==
  IF request.maxRiskPerTrade # 0 THEN request.maxRiskPerTrade * QtyScale
  ELSE request.accountBalance * stopLossPercent * (QtyScale \div 100)

\* the amount risked by the returned quantity, less the maximum risk amount
\* (both times 100, in millionths of a dollar)
riskExcess ==
  sizing.result.quantity * sizing.request.price * stopLossPercent
    - maxRiskAmountOf(sizing.request) * 100

\* C17 (as claimed): for every request that passes the input and
\* max-position checks, the quantity returned by calculatePositionSize
\* satisfies quantity x price x stopLossPercent / 100 <= the maximum risk
\* amount (request.maxRiskPerTrade, or the amount derived from the account
\* balance when it is absent).
\* C39 (as claimed): the hard-constraint stage only reduces: the quantity
\* calculatePositionSize returns is at most the weighted blend of the four
\* strategies computed before the constraints were applied.
C39_ConstraintsOnlyReduce ==
  (validSizing /\ ~atPositionLimit)
     => sizing.result.quantity <= combineStrategies(sizing.request)

C18_NoQuantityBelowMinimum ==
  (sizing.called /\ ~sizing.threw) =>
    \/ sizing.result.quantity = 0
    \/ sizing.result.quantity * 1000 >= QtyScale

\* C26: of two requests that differ only in volatility, the one with the
\* higher volatility gets the strictly smaller quantity (requests with a
\* volatility, below the limit of open positions).
C26_HigherVolatilitySmaller ==
  (sizing.called /\ ~sizing.threw /\ sizing.request.volatility # 0
     /\ ~positionLimitReached(sizing.request.currentPositions)) =>
    \A volatility \in {20, 80} :
      volatility > sizing.request.volatility =>
        calculatePositionSize([sizing.request EXCEPT !.volatility = volatility])
          .result.quantity < sizing.result.quantity

-----------------------------------------------------------------------------
(***************************************************************************)
(* Properties of the signal validator (checked under SpecValidator)        *)
(***************************************************************************)

warned(text) ==
  \E i \in 1..Len(validation.result.warnings) :
    validation.result.warnings[i] = text

\* C19: validateWebhookPayload returns a confidence within [0, 1] for every
\* payload: 0 for a payload it rejects, and for a payload it accepts 1 less
\* 0.2, 0.15, 0.1 and 0.05 for the correlation, strength, price and
\* timestamp checks that failed and 0.1 for a signal against the
\* indicators, whatever the combination.
C19_ConfidenceInUnitRange ==
  validation.called =>
    /\ validation.result.confidence \in 0..100
    /\ ~validation.result.isValid => validation.result.confidence = 0
    /\ validation.result.isValid =>
         validation.result.confidence =
           100 - (IF warned("MFI-RSI Correlation check failed") THEN 20 ELSE 0)
               - (IF warned("Signal Strength Logic check failed") THEN 15 ELSE 0)
               - (IF warned("Price Validation check failed") THEN 10 ELSE 0)
               - (IF warned("Timestamp Validation check failed") THEN 5 ELSE 0)
               - (IF warned("Buy signal in overbought conditions")
                     \/ warned("Sell signal in oversold conditions")
                  THEN 10 ELSE 0)

\* every penalty applied to one payload
C19_Witness ==
  /\ validation.called
  /\ validation.result.isValid
  /\ warned("MFI-RSI Correlation check failed")
  /\ warned("Signal Strength Logic check failed")
  /\ warned("Price Validation check failed")
  /\ warned("Timestamp Validation check failed")
  /\ warned("Buy signal in overbought conditions")
  /\ validation.result.confidence = 40

\* the payload of the call is an object and breaks the schema at the key
violatedField(key) ==
  /\ validation.payload.kind = "object"
  /\ \/ key \in validation.payload.absent
     \/ key = "timestamp" /\ validation.payload.timestamp = "not a date"
     \/ key = "symbol" /\ validation.payload.symbol = "AB"
     \/ key = "action" /\ validation.payload.action = "HOLD"
     \/ key = "price" /\ validation.payload.price <= 0
     \/ key = "mfi_value" /\ validation.payload.mfi_value \notin 0..100
     \/ key = "rsi_value" /\ validation.payload.rsi_value \notin 0..100

errorsNaming(key) ==
  {i \in 1..Len(validation.result.errors) :
     validation.result.errors[i].key = key}

schemaFailed ==
  /\ validation.called
  /\ \/ validation.payload.kind = "string"
     \/ \E k \in 1..Len(SchemaKeys) : violatedField(SchemaKeys[k])

-----------------------------------------------------------------------------
(***************************************************************************)
(* Properties of the webhook server (checked under SpecWebhook)            *)
(***************************************************************************)

\* C32 (as claimed): the confidence of the ProcessedSignal the webhook
\* server builds for a payload it accepts is the confidence
\* validateWebhookPayload returned for that payload.
C32_SignalCarriesValidatorConfidence ==
  (validation.called /\ validation.accepted)
  => validation.signal.confidence = validation.result.confidence

-----------------------------------------------------------------------------
(***************************************************************************)
(* Properties of the TradingEngine (checked under Spec)                    *)
(***************************************************************************)

\* the steps of processSignal that decide, in program order
PipelineSteps == <<"price", "safety", "risk", "size">>

\* the entry order of the executeTrade call of p has been sent
entrySent(p) == exec[p].calls # <<>>

\* the entry order of the executeTrade call of p has been accepted
entryPlaced(p) == exec[p].orderId # 0

\* the rows of the trades table stored under an order id
rowsOf(orderId) == {i \in 1..Len(trades) : trades[i].id = orderId}

\* C5: processSignal calls executeTrade, and so places an entry order, only
\* after it has, in this order, obtained a price, been told by checkSafety
\* that trading is enabled, been told by checkTradeRisk that the trade should
\* be made, and been given a quantity > 0 by calculatePositionSize; no step
\* is taken twice; at the first step that finds otherwise it returns false,
\* having made no executeTrade call, sent no order and stored no trade.
C5_GatesBeforeEntry ==
  \A p \in Procs :
    LET log == sig[p].log
        n == Len(log)
    IN /\ n <= Len(PipelineSteps)
       /\ \A i \in 1..n : log[i].step = PipelineSteps[i]
       /\ \A i \in 1..(n - 1) : log[i].ok
       /\ (exec[p].pc # "idle" \/ entrySent(p))
          => /\ n = Len(PipelineSteps)
             /\ \A i \in 1..n : log[i].ok
             /\ exec[p].request.currentPrice > 0
             /\ exec[p].request.riskCheck.shouldTrade
             /\ exec[p].request.positionSize.quantity > 0
       /\ (n > 0 /\ ~log[n].ok)
          => /\ sig[p].pc = "returned"
             /\ ~sig[p].result
             /\ exec[p] = IdleExec
             /\ \A i \in 1..Len(trades) : trades[i].signalId # sig[p].signal.id

\* C5 witness: one call has returned false at the risk check, after a price
\* and an enabling safety status, while the entry order of the other call
\* has been accepted
C5_Witness ==
  \E p, q \in Procs :
    /\ p # q
    /\ sig[p].pc = "returned"
    /\ Len(sig[p].log) = 3
    /\ ~sig[p].log[3].ok
    /\ ~sig[p].result
    /\ entryPlaced(q)

\* the row of the trades table that matches the execution request of p
matchingRow(p, i) ==
  /\ trades[i].id = exec[p].result.orderId
  /\ trades[i].signalId = sig[p].signal.id
  /\ trades[i].status = "OPEN"
  /\ trades[i].quantity = exec[p].request.positionSize.quantity
  /\ trades[i].entryPrice = exec[p].request.currentPrice
  /\ trades[i].stopLossPrice = exec[p].request.riskCheck.stopLossPrice
  /\ trades[i].takeProfitPrice = exec[p].request.riskCheck.takeProfitPrice

\* C8 (as claimed): when a processSignal call whose executeTrade succeeded
\* has returned, the trades table holds exactly one row for its order, with
\* status OPEN and with the quantity, entry price, stop-loss price and
\* take-profit price of the execution request.
C8_RoundTrip ==
  \A p \in Procs :
    (sig[p].pc = "returned" /\ exec[p].result.success)
    => /\ Cardinality(rowsOf(exec[p].result.orderId)) = 1
       /\ \A i \in rowsOf(exec[p].result.orderId) : matchingRow(p, i)

\* C8 (amended): a processSignal call whose executeTrade succeeded stores at
\* most one row for its order, and any such row has status OPEN and the
\* quantity, entry price, stop-loss price and take-profit price of the
\* execution request; the row is there once storeTrade has resolved, so
\* whenever the call returns true; when storeTrade rejects there is no row,
\* the call returns false, and the entry order stays in the active-order
\* table.
C8_RoundTripAmended ==
  \A p \in Procs :
    exec[p].result.success
    => LET rows == rowsOf(exec[p].result.orderId)
       IN /\ Cardinality(rows) <= 1
          /\ \A i \in rows : matchingRow(p, i)
          /\ sig[p].pc \in {"executing", "store"} => rows = {}
          /\ (sig[p].pc = "mark" \/ (sig[p].pc = "returned" /\ sig[p].result))
             => rows # {}
          /\ (sig[p].pc = "returned" /\ rows = {})
             => /\ ~sig[p].result
                /\ exec[p].clientOrderId \in DOMAIN activeOrders

\* C8 witness: a call has returned true with its row stored next to the row
\* of an earlier call
C8_Witness ==
  \E p \in Procs :
    /\ sig[p].pc = "returned"
    /\ sig[p].result
    /\ exec[p].result.success
    /\ Len(trades) = 2
    /\ \E i \in 1..Len(trades) : matchingRow(p, i)

\* C9: the only open-position count a processSignal call checks is the one it
\* read into openPositions: every call whose entry order was sent read fewer
\* than maxOpenPositions positions and passed the safety, risk and size
\* checks.  Nothing ties that count to the entries of the other call: two
\* calls for the same symbol can both read the same positions, both pass and
\* both place an entry, and the account then holds more than
\* maxOpenPositions positions (the state C9_Witness).
C9_ChecksUseSnapshot ==
  \A p \in Procs :
    entrySent(p)
    => /\ sig[p].currentPositions < maxOpenPositions
       /\ \A i \in 1..Len(sig[p].log) : sig[p].log[i].ok

\* C9 witness: both calls, for the same symbol, have read maxOpenPositions - 1
\* open positions and both have had their entry order accepted: the account
\* holds maxOpenPositions + 1 positions
C9_Witness ==
  /\ \A p \in Procs :
       /\ entryPlaced(p)
       /\ sig[p].currentPositions = maxOpenPositions - 1
       /\ sig[p].signal.symbol = "BTCUSDT"
  /\ Len(exchPositions) > maxOpenPositions

-----------------------------------------------------------------------------
(***************************************************************************)
(* Properties of the safety check on the trade history (checked under      *)
(* SpecHistory)                                                            *)
(***************************************************************************)

\* the run of losing trades that starts at the trade closed last: rows holds
\* the closed trades, the one closed last first
RECURSIVE lossRun(_)
lossRun(rows) ==
  IF rows = <<>> THEN 0
  ELSE IF Head(rows).pnl < 0 THEN 1 + lossRun(Tail(rows)) ELSE 0

\* no two of the rows were closed at the same instant
closedApart(rows) ==
  \A i, j \in 1..Len(rows) : i # j => rows[i].exitTime # rows[j].exitTime

\* the checkSafety call of processSignal call p gets as far as the
\* consecutive-loss limit in this step
limitEvaluated(p) ==
  /\ sig[p].pc = "history"
  /\ checkSafetyReturned
  /\ ~emergencyStop
  /\ ~(circuitBreaker.isActive /\ inCooldown(circuitBreaker))
  /\ closedApart(getTradeHistory(sig[p].signal.symbol, 10))

countLeftIsRecentLossRun ==
  [][ \A p \in Procs :
        limitEvaluated(p)
        => consecutiveLosses' = lossRun(getTradeHistory(sig[p].signal.symbol, 10)) ]_vars

-----------------------------------------------------------------------------
(***************************************************************************)
(* Properties of the TradingEngine with failing collaborators (checked     *)
(* under SpecFaults)                                                       *)
(***************************************************************************)

\* executeTrade has resolved for the call with the entry order placed and a
\* bracket order refused, and the notification of the execution was awaited
unprotected(p) ==
  /\ sig[p].pc \in {"store", "mark", "returned"}
  /\ exec[p].result.success
  /\ exec[p].result.warnings # <<>>

\* the notification is about an order and carries the warnings of its result
reportsWarnings(notification) ==
  /\ "orderId" \in notification.data
  /\ "warnings" \in notification.data

\* C23: when the entry order of a processSignal call succeeds and its
\* stop-loss or take-profit order fails, a notification that reports the
\* missing protection (the warnings of the execution result) is sent for
\* that trade.
C23_PartialFailureNotified ==
  \A p \in Procs :
    unprotected(p) =>
      \E i \in 1..Len(sig[p].notified) : reportsWarnings(sig[p].notified[i])

\* the day's realised losses exceed maxDailyLoss percent of the balance the
\* day began with
dailyLossCapExceeded ==
  /\ realizedPnL < 0
  /\ \A b \in Balances :
       b + realizedPnL > 0 => -realizedPnL * 100 > b * maxDailyLoss

\* C22: once the losses realised during the day exceed the maximum daily
\* loss, a processSignal call made later that day sends no entry order and
\* returns false.
C22_DailyLossCapEnforced ==
  dailyLossCapExceeded =>
    \A p \in Procs :
      /\ ~entrySent(p)
      /\ sig[p].pc = "returned" => ~sig[p].result

\* C24: processSignal never rejects: whichever collaborator fails, its error
\* is caught, the call returns false, and the engine stays running, so that
\* later signals are accepted.
C24_NeverRejects ==
  /\ [](\A p \in Procs :
          /\ sig[p].pc # "rejected"
          /\ sig[p].caught # "" => sig[p].pc = "returned" /\ ~sig[p].result)
  /\ [][isRunning => isRunning']_vars

\* the second call made has caught an error of the database and returned
\* false, an order of the first being on the exchange
C24_Witness ==
  /\ isRunning
  /\ nSignals = 2
  /\ sig["A"].signal.id = 2
  /\ sig["A"].pc = "returned"
  /\ sig["A"].caught = "database"
  /\ ~sig["A"].result
  /\ nextClientOrderId > 1

\* C25: a notification that a channel fails to deliver makes no notify call
\* reject, and no processSignal call ends in its catch block for it: the
\* boolean the call returns is the one it returns with every channel up.
C25_DeliveryFailureContained ==
  \A p \in Procs :
    /\ \A i \in 1..Len(sig[p].notified) :
         sig[p].notified[i].settled = "fulfilled"
    /\ sig[p].caught # "notifications"

\* a call returns true, none of its notifications delivered
C25_Witness ==
  /\ sig["A"].pc = "returned"
  /\ sig["A"].result
  /\ Len(sig["A"].notified) = 2
  /\ \A i \in 1..2 : ~sig["A"].notified[i].delivered

=============================================================================
